---- MODULE Spec2Model ----
(***************************************************************************)
(* A model of genshi/filters/i18n.py (advanced-i18n branch): the message   *)
(* parser parse_msg, the MessageBuffer (append / format / translate) and   *)
(* the stream filter Translator.__call__.                                  *)
(*                                                                         *)
(* Strings are sequences of one-character strings, so that the regular     *)
(* expressions, strip() and replace() of the source act on characters.     *)
(***************************************************************************)
EXTENDS Integers, Sequences, FiniteSets, TLC

VARIABLES
    \* ---- parse_msg, applied to one input string
    msg,          \* the input, as the tokens it was written from
    parsed,       \* what parse_msg(string) returned or raised
    ppc,          \* "init" before the call, "done" after it
    \* ---- one MessageBuffer (the fields of the source, under their names)
    params, string, events, values, depth, order, stack,
    appended,     \* the events appended so far, in order
    bpc,          \* "append", "closed" (depth 0), "translated", "failed"
    trans,        \* the tokens of the string given to translate()
    captured,     \* self.events as it was when translate() was called
    yielded,      \* the events translate() yielded
    raised,       \* the exception the last call raised, "" if none
    \* ---- one traversal of Translator.__call__ (top-level call)
    extract_text,    \* self.extract_text
    translate_kind,  \* what self.translate is: "function", "object" (ugettext
                     \* only) or "domain_object" (ugettext and dugettext)
    has_ctxt,        \* whether a (true) context object is passed as ctxt
    skip,            \* the skip counter of the top-level call
    ctxt,            \* the domains pushed on the context, innermost last
    input,           \* the events pulled from the stream so far
    output,          \* the events yielded so far
    calls,           \* the calls of the translation function so far
    tpc,             \* "new", "running" (suspended at a yield), "raised", "done"
    pend,            \* TRUE when ctxt.pop() is due on resuming (after a SUB)
    terr,            \* the exception that ended the traversal, "" if none
    \* ---- one call of extract_from_code
    code,            \* code.ast, the tree of the expression
    found,           \* what list(extract_from_code(code, ...)) gives
    spc,             \* "idle", "init" (before the call) or "done"
    \* ---- one traversal of Translator.extract (top-level call)
    exinput,         \* the events pulled from the stream so far
    exout,           \* the tuples yielded so far
    exskip,          \* the skip counter of the top-level call
    msgbuf,          \* the msgbuf of the top-level call
    expc,            \* "idle", "running", "raised" or "done"
    exerr,           \* the exception that ended the traversal, "" if none
    \* ---- one call of MessageBuffer.translate, statement by statement
    rstring,         \* parse_msg: what is left of the string
    rstack,          \* parse_msg: the stack of orders
    rparts,          \* the fragments: as parse_msg collects them, then those
                     \* the replay has still to take, the current one first
    rpc              \* "idle", "parse" (in the loop of parse_msg), "for"
                     \* (about to take a fragment), "while" (in the loop over
                     \* its events), "ended" or "raised"

pvars == <<msg, parsed, ppc>>

bvars == <<params, string, events, values, depth, order, stack,
           appended, bpc, trans, captured, yielded, raised>>

tvars == <<extract_text, translate_kind, has_ctxt, skip, ctxt, input, output,
           calls, tpc, pend, terr>>

svars == <<code, found, spc>>

xvars == <<exinput, exout, exskip, msgbuf, expc, exerr>>

rvars == <<rstring, rstack, rparts, rpc>>

vars == <<msg, parsed, ppc,
          params, string, events, values, depth, order, stack,
          appended, bpc, trans, captured, yielded, raised,
          extract_text, translate_kind, has_ctxt, skip, ctxt, input, output,
          calls, tpc, pend, terr,
          code, found, spc,
          exinput, exout, exskip, msgbuf, expc, exerr,
          rstring, rstack, rparts, rpc>>

\* ------------------------------------------------------------------ bounds

\* Longest input of parse_msg, in tokens.
MaxTokens == 7

\* Most events appended to a MessageBuffer.
MaxEvents == 4

\* Longest translated string given to MessageBuffer.translate, in tokens.
MaxTransTokens == 4

\* Most events pulled from the stream the Translator filters.
MaxStream == 3

\* Most arguments of a call in an expression scanned.
MaxArgs == 3

\* Most events pulled from the stream Translator.extract walks.
MaxExStream == 4

\* Most events appended to a buffer before a replay that is followed
\* statement by statement.
MaxReplayEvents == 3

\* Longest translated string of such a replay, in tokens.
MaxReplayTokens == 3

\* ----------------------------------------------------------------- strings

Last(s) == s[Len(s)]

Front(s) == SubSeq(s, 1, Len(s) - 1)

From(s, i) == SubSeq(s, i, Len(s))

RECURSIVE Join(_)
\* u''.join(list)
Join(ss) == IF ss = <<>> THEN <<>> ELSE Head(ss) \o Join(Tail(ss))

Digits == {"0", "1", "2", "3", "4", "5", "6", "7", "8", "9"}

DigitVal(c) ==
    CASE c = "0" -> 0 [] c = "1" -> 1 [] c = "2" -> 2 [] c = "3" -> 3
      [] c = "4" -> 4 [] c = "5" -> 5 [] c = "6" -> 6 [] c = "7" -> 7
      [] c = "8" -> 8 [] c = "9" -> 9

RECURSIVE ToInt(_)
\* int(orderno) of a string of digits
ToInt(ds) == IF ds = <<>> THEN 0 ELSE 10 * ToInt(Front(ds)) + DigitVal(Last(ds))

RECURSIVE DigitRun(_, _)
\* the length of the longest run of digits of s that starts at index i (\d+)
DigitRun(s, i) ==
    IF i <= Len(s) /\ s[i] \in Digits THEN 1 + DigitRun(s, i + 1) ELSE 0

\* ---------------------------------------------------------------- parse_msg

\* The regex (?:\[(\d+)\:)|\] matches at index i of s.
BracketOpenAt(s, i) ==
    /\ s[i] = "["
    /\ LET n == DigitRun(s, i + 1)
       IN  n >= 1 /\ i + n + 1 <= Len(s) /\ s[i + n + 1] = ":"

BracketAt(s, i) == s[i] = "]" \/ BracketOpenAt(s, i)

\* regex.search(string): the index of the leftmost match, 0 when there is none.
BracketSearch(s) ==
    IF \E i \in 1..Len(s) : BracketAt(s, i)
    THEN CHOOSE i \in 1..Len(s) :
            BracketAt(s, i) /\ \A j \in 1..(i - 1) : ~BracketAt(s, j)
    ELSE 0

\* (mutant) the text after the last bracket is dropped
ParseTailDrop(str, stk, parts) == [raised |-> "", parts |-> parts]

\* The statements after the loop: the rest of the string is appended under
\* stack[-1], which raises IndexError when the stack is empty.
ParseTail(str, stk, parts) ==
    IF str # <<>>
    THEN IF stk = <<>>
         THEN [raised |-> "IndexError", parts |-> parts]
         ELSE [raised |-> "", parts |-> Append(parts, [order |-> Last(stk), text |-> str])]
    ELSE [raised |-> "", parts |-> parts]

\* (mutant) only a non-empty segment is kept
KeepSegmentNonEmpty(start, top) == start # 0

\* "if mo.start() or stack[-1]": whether the text before the match is kept.
KeepSegment(start, top) == start # 0 \/ top # 0

RECURSIVE ParseLoop(_, _, _)
\* One turn of "while True" and the turns after it.
ParseLoop(str, stk, parts) ==
    LET i == BracketSearch(str) IN
    IF i = 0 THEN ParseTail(str, stk, parts)
    ELSE
      LET start  == i - 1
          parts1 == IF KeepSegment(start, Last(stk))
                    THEN Append(parts, [order |-> Last(stk),
                                        text  |-> SubSeq(str, 1, start)])
                    ELSE parts
          isOpen == str[i] = "["
          n      == DigitRun(str, i + 1)
          mend   == IF isOpen THEN i + n + 1 ELSE i
          rest   == From(str, mend + 1)
          stack1 == IF isOpen
                    THEN Append(stk, ToInt(SubSeq(str, i + 1, i + n)))
                    ELSE Front(stk)
      IN  IF stack1 = <<>>
          THEN ParseTail(rest, stack1, parts1)
          ELSE ParseLoop(rest, stack1, parts1)

parse_msg(str) == ParseLoop(str, <<0>>, <<>>)

\* ------------------------------------------------------------------ events

\* A stream event (kind, data, pos).  The data is held in fields of its own:
\* the string of a TEXT, the source of an EXPR, the tag and attributes of a
\* START, the tag of an END, the directives and substream of a SUB.
Ev(kind, text, tag, attrs, dirs, sub, pos) ==
    [kind |-> kind, text |-> text, tag |-> tag, attrs |-> attrs,
     dirs |-> dirs, sub |-> sub, pos |-> pos]

\* The None that append() stores for a TEXT or EXPR slot.
NoneMark == Ev("NONE", <<>>, "", <<>>, <<>>, <<>>, 0)

\* (None, -1, -1), the position of an event that has no place in the source.
NoPos == -1

\* (mutant) the text of the translation is replayed with the marker's place
TextEventAtZero(part) == Ev("TEXT", part, "", <<>>, <<>>, <<>>, 0)

\* TEXT, part, (None, -1, -1)
TextEvent(part) == Ev("TEXT", part, "", <<>>, <<>>, <<>>, NoPos)

\* ----------------------------------------------------------- MessageBuffer

Whitespace == {" "}

RECURSIVE LStrip(_)
LStrip(s) == IF s # <<>> /\ Head(s) \in Whitespace THEN LStrip(Tail(s)) ELSE s

RECURSIVE RStrip(_)
RStrip(s) == IF s # <<>> /\ Last(s) \in Whitespace THEN RStrip(Front(s)) ELSE s

\* unicode.strip()
Strip(s) == RStrip(LStrip(s))

RECURSIVE Split(_, _, _)
\* str.split(sep): the pieces of s between the separators, cur the one begun
Split(s, sep, cur) ==
    IF s = <<>> THEN <<cur>>
    ELSE IF Head(s) = sep THEN <<cur>> \o Split(Tail(s), sep, <<>>)
    ELSE Split(Tail(s), sep, Append(cur, Head(s)))

\* [name.strip() for name in params.split(',')]
SplitParams(decl) ==
    LET pieces == Split(decl, ",", <<>>)
    IN  [i \in 1..Len(pieces) |-> Strip(pieces[i])]

\* dict.setdefault(key, [])
SetDefault(map, key) ==
    IF key \in DOMAIN map THEN map ELSE map @@ (key :> <<>>)

\* u'[%d:' % order, for the orders a bounded buffer can reach
DigitChar(d) ==
    CASE d = 0 -> "0" [] d = 1 -> "1" [] d = 2 -> "2" [] d = 3 -> "3"
      [] d = 4 -> "4" [] d = 5 -> "5" [] d = 6 -> "6" [] d = 7 -> "7"
      [] d = 8 -> "8" [] d = 9 -> "9"

RECURSIVE Decimal(_)
Decimal(n) == IF n < 10 THEN <<DigitChar(n)>> ELSE Append(Decimal(n \div 10), DigitChar(n % 10))

OpenBracket(n) == <<"[">> \o Decimal(n) \o <<":">>

\* '%%(%s)s' % param
ParamToken(name) == <<"%", "(">> \o name \o <<")", "s">>

\* (mutant) the identifier is returned as joined, not stripped
formatUnstripped(str) == Join(str)

\* MessageBuffer.format
format(str) == Strip(Join(str))

Letters == {"a", "b", "c", "d", "e", "f", "g", "h", "i", "j", "k", "l", "m",
            "n", "o", "p", "q", "r", "s", "t", "u", "v", "w", "x", "y", "z"}

\* \w
WordChars == Letters \cup Digits \cup {"_"}

RECURSIVE WordRun(_, _)
WordRun(s, i) ==
    IF i <= Len(s) /\ s[i] \in WordChars THEN 1 + WordRun(s, i + 1) ELSE 0

\* The regex %\((\w+)\)s matches at index i of s.
ParamAt(s, i) ==
    /\ s[i] = "%"
    /\ i + 1 <= Len(s) /\ s[i + 1] = "("
    /\ LET n == WordRun(s, i + 2)
       IN  /\ n >= 1
           /\ i + n + 3 <= Len(s)
           /\ s[i + n + 2] = ")"
           /\ s[i + n + 3] = "s"

RECURSIVE RegexSplit(_)
\* regex.split(string): text, name, text, name, ..., text
RegexSplit(s) ==
    IF \E i \in 1..Len(s) : ParamAt(s, i)
    THEN LET i == CHOOSE i \in 1..Len(s) :
                     ParamAt(s, i) /\ \A j \in 1..(i - 1) : ~ParamAt(s, j)
             n == WordRun(s, i + 2)
         IN  \* (the rest of the string is bound, to be evaluated once)
             <<SubSeq(s, 1, i - 1), SubSeq(s, i + 2, i + n + 1)>>
                 \o (CHOOSE r \in {RegexSplit(t) : t \in {From(s, i + n + 4)}} : TRUE)
    ELSE <<s>>

RECURSIVE SplitLoopRebuilt(_, _, _, _)
\* (mutant) the expression is yielded as a new event, without its position
SplitLoopRebuilt(pieces, idx, vals, out) ==
    IF pieces = <<>> THEN [out |-> out, raised |-> ""]
    ELSE LET part == Head(pieces) IN
         IF idx % 2 = 1
         THEN IF part \in DOMAIN vals
              THEN SplitLoopRebuilt(Tail(pieces), idx + 1, vals,
                                    Append(out, [vals[part] EXCEPT !.pos = NoPos]))
              ELSE [out |-> out, raised |-> "KeyError"]
         ELSE SplitLoopRebuilt(Tail(pieces), idx + 1, vals,
                               IF part # <<>> THEN Append(out, TextEvent(part)) ELSE out)

RECURSIVE SplitLoop(_, _, _, _)
\* "for idx, part in enumerate(regex.split(string))": a name is replaced by the
\* event values[name] (KeyError if there is none), a text becomes a new TEXT.
SplitLoop(pieces, idx, vals, out) ==
    IF pieces = <<>> THEN [out |-> out, raised |-> ""]
    ELSE LET part == Head(pieces) IN
         IF idx % 2 = 1
         THEN IF part \in DOMAIN vals
              THEN SplitLoop(Tail(pieces), idx + 1, vals, Append(out, vals[part]))
              ELSE [out |-> out, raised |-> "KeyError"]
         ELSE SplitLoop(Tail(pieces), idx + 1, vals,
                        IF part # <<>> THEN Append(out, TextEvent(part)) ELSE out)

\* (mutant) the fragment always ends after its text
StopAfterTextAlways(evs) == TRUE

\* "if not self.events[order] or not self.events[order][0]: break"
StopAfterText(evs) == evs = <<>> \/ Head(evs).kind = "NONE"

\* (mutant) the event is read and left in the list
PoppedKept(evs) == evs

\* What events.pop(0) leaves in the list.
Popped(evs) == Tail(evs)

RECURSIVE DrainLoop(_, _, _, _, _)
\* "while events": the events of one fragment (order, str) are popped and
\* yielded until the list is empty or a break.
DrainLoop(evmap, ord, str, vals, out) ==
    IF evmap[ord] = <<>> THEN [events |-> evmap, out |-> out, raised |-> ""]
    ELSE
      LET event == Head(evmap[ord])
          ev1   == [evmap EXCEPT ![ord] = Tail(@)]
      IN  IF event.kind # "NONE"
          THEN DrainLoop(ev1, ord, str, vals, Append(out, event))
          ELSE IF str = <<>>
          THEN [events |-> ev1, out |-> out, raised |-> ""]
          ELSE LET r == SplitLoop(RegexSplit(str), 0, vals, out) IN
               IF r.raised # ""
               THEN [events |-> ev1, out |-> r.out, raised |-> r.raised]
               ELSE IF StopAfterText(ev1[ord])
               THEN [events |-> ev1, out |-> r.out, raised |-> ""]
               ELSE DrainLoop(ev1, ord, str, vals, r.out)

RECURSIVE TranslatePartsSkipMissing(_, _, _, _)
\* (mutant) a fragment whose order has no events is passed over
TranslatePartsSkipMissing(parts, evmap, vals, out) ==
    IF parts = <<>> THEN [events |-> evmap, out |-> out, raised |-> ""]
    ELSE IF Head(parts).order \notin DOMAIN evmap
    THEN TranslatePartsSkipMissing(Tail(parts), evmap, vals, out)
    ELSE LET r == DrainLoop(evmap, Head(parts).order, Head(parts).text, vals, out)
         IN  IF r.raised # "" THEN r
             ELSE TranslatePartsSkipMissing(Tail(parts), r.events, vals, r.out)

RECURSIVE TranslateParts(_, _, _, _)
\* "for order, string in parts": self.events[order] raises KeyError when the
\* order has no entry.
TranslateParts(parts, evmap, vals, out) ==
    IF parts = <<>> THEN [events |-> evmap, out |-> out, raised |-> ""]
    ELSE IF Head(parts).order \notin DOMAIN evmap
    THEN [events |-> evmap, out |-> out, raised |-> "KeyError"]
    ELSE LET r == DrainLoop(evmap, Head(parts).order, Head(parts).text, vals, out)
         IN  IF r.raised # "" THEN r
             ELSE TranslateParts(Tail(parts), r.events, vals, r.out)

\* (mutant) the replay pops from a copy and leaves self.events as it found it
translateOnCopy(str, evmap, vals) ==
    LET p == parse_msg(str)
    IN  IF p.raised # ""
        THEN [events |-> evmap, out |-> <<>>, raised |-> p.raised]
        ELSE [TranslateParts(p.parts, evmap, vals, <<>>) EXCEPT !.events = evmap]

\* MessageBuffer.translate(string), run to its end: what it leaves in
\* self.events, the events it yields and the exception that ends it, if any.
translate(str, evmap, vals) ==
    LET p == parse_msg(str)
    IN  IF p.raised # ""
        THEN [events |-> evmap, out |-> <<>>, raised |-> p.raised]
        ELSE TranslateParts(p.parts, evmap, vals, <<>>)

\* (mutant) the order counter of a fresh buffer starts at 0
NewBufferFromZero(decl) ==
    [params |-> SplitParams(decl), string |-> <<>>, events |-> <<>>,
     values |-> <<>>, depth |-> 1, order |-> 0, stack |-> <<0>>, raised |-> ""]

\* MessageBuffer.__init__(params): the fields of a fresh buffer.
NewBuffer(decl) ==
    [params |-> SplitParams(decl), string |-> <<>>, events |-> <<>>,
     values |-> <<>>, depth |-> 1, order |-> 1, stack |-> <<0>>, raised |-> ""]

\* self.events.setdefault(key, []).append(item)
AddEvent(map, key, item) ==
    [SetDefault(map, key) EXCEPT ![key] = Append(@, item)]

\* (mutant) a nested END is recorded under the root, not under its own order
appendEndAtRoot(b, e) ==
    LET d == b.depth - 1 IN
    IF d # 0
    THEN [b EXCEPT !.depth = d,
                   !.events = AddEvent(b.events, 0, e),
                   !.string = Append(b.string, <<"]">>),
                   !.stack = Front(b.stack)]
    ELSE [b EXCEPT !.depth = d]

\* MessageBuffer.append, kind is END
appendEnd(b, e) ==
    LET d == b.depth - 1 IN
    IF d # 0
    THEN [b EXCEPT !.depth = d,
                   !.events = [@ EXCEPT ![Last(b.stack)] = Append(@, e)],
                   !.string = Append(b.string, <<"]">>),
                   !.stack = Front(b.stack)]
    ELSE [b EXCEPT !.depth = d]

\* MessageBuffer.append(kind, data, pos) on the buffer b; "raised" is the
\* exception it ends with (params.pop(0) on an empty list is an IndexError).
append(b, e) ==
    IF e.kind = "TEXT"
    THEN [b EXCEPT !.string = Append(@, e.text),
                   !.events = AddEvent(@, Last(b.stack), NoneMark)]
    ELSE IF e.kind = "EXPR"
    THEN IF b.params = <<>>
         THEN [b EXCEPT !.raised = "IndexError"]
         ELSE LET param == Head(b.params) IN
              [b EXCEPT !.params = Tail(@),
                        !.string = Append(@, ParamToken(param)),
                        !.events = AddEvent(@, Last(b.stack), NoneMark),
                        !.values = IF param \in DOMAIN @
                                   THEN [@ EXCEPT ![param] = e]
                                   ELSE @ @@ (param :> e)]
    ELSE IF e.kind = "START"
    THEN [b EXCEPT !.string = Append(@, OpenBracket(b.order)),
                   !.events = AddEvent(@, b.order, e),
                   !.stack = Append(@, b.order),
                   !.depth = @ + 1,
                   !.order = @ + 1]
    ELSE IF e.kind = "END"
    THEN appendEnd(b, e)
    ELSE b

\* ------------------------------------------------------- Translator.__call__

\* Translator.IGNORE_TAGS and INCLUDE_ATTRS, one name of each
IgnoreTags == {"script"}

IncludeAttrs == {"title"}

\* XML_NAMESPACE['lang']
XmlLang == "xml:lang"

\* An attribute (name, value): the value is a literal string (lit, val) or a
\* stream of events (evs), as for title="${x}".
Attr(name, lit, val, evs) == [name |-> name, lit |-> lit, val |-> val, evs |-> evs]

\* A call of the translation function: which one, under which domain, with
\* which string, and for what: the TEXT event at the path (the index of the
\* top-level event, then the index in the substream of each SUB entered), or
\* the attr-th attribute of the START event there.
Call(fn, dom, arg, path, what, attr) ==
    [fn |-> fn, dom |-> dom, arg |-> arg, path |-> path, what |-> what, attr |-> attr]

\* What the translation functions return: a catalog that marks what it is
\* given, "T" + s for ugettext(s) and "D" + s for dugettext(domain, s).
Ugettext(s) == <<"T">> \o s

Dugettext(dom, s) == <<"D">> \o s

\* (mutant) the whole string is replaced, its white space too
ReplaceWhole(data, old, new) == new

RECURSIVE Replace(_, _, _)
\* data.replace(old, new), old not empty
Replace(data, old, new) ==
    IF Len(data) < Len(old) THEN data
    ELSE IF SubSeq(data, 1, Len(old)) = old
    THEN new \o Replace(From(data, Len(old) + 1), old, new)
    ELSE <<Head(data)>> \o Replace(Tail(data), old, new)

\* _ensure(value): the items of a literal string are its characters, each
\* wrapped as a TEXT event; an event stream is passed through.
Ensure(a) ==
    IF a.lit THEN [i \in 1..Len(a.val) |-> TextEvent(<<a.val[i]>>)] ELSE a.evs

\* Lines 207-218: with a plain function dgettext is never bound, and storing
\* it in a context raises UnboundLocalError.
PrologueError ==
    IF translate_kind = "function" /\ has_ctxt THEN "UnboundLocalError" ELSE ""

\* Lines 220-222: "if not extract_text: search_text = False"
SearchText(search_text) == IF extract_text THEN search_text ELSE FALSE

\* ctxt.get('_i18n.domain'), "" for None
ActiveDomain(cx) == IF has_ctxt /\ cx # <<>> THEN Last(cx) ELSE ""

\* gettext(text) in the TEXT branch.  Under an active domain gettext is
\* rebound to "lambda x: dgettext(domain, x)"; the fallback dgettext,
\* "lambda x, y: gettext(y)", then calls that same lambda again and the
\* recursion ends in a RuntimeError.
TextLookup(cx, text, path) ==
    LET dom == ActiveDomain(cx) IN
    IF dom = ""
    THEN [result |-> Ugettext(text), raised |-> "",
          calls |-> <<Call("gettext", "", text, path, "text", 0)>>]
    ELSE IF translate_kind = "domain_object"
    THEN [result |-> Dugettext(dom, text), raised |-> "",
          calls |-> <<Call("dgettext", dom, text, path, "text", 0)>>]
    ELSE IF translate_kind = "object"
    THEN [result |-> text, raised |-> "RuntimeError", calls |-> <<>>]
    ELSE [result |-> text, raised |-> "UnboundLocalError", calls |-> <<>>]

\* (mutant) an element is skipped only for its tag
SkipsByTagOnly(e) == e.tag \in IgnoreTags

\* "tag in self.ignore_tags or isinstance(attrs.get(xml_lang), basestring)"
Skips(e) ==
    \/ e.tag \in IgnoreTags
    \/ \E k \in 1..Len(e.attrs) : e.attrs[k].name = XmlLang /\ e.attrs[k].lit

\* (mutant) a START in a skipped element is not counted
SkipStepFlat(sk, e) == IF e.kind = "END" THEN sk - 1 ELSE sk

\* "if skip: if kind is START: skip += 1; elif kind is END: skip -= 1"
SkipStep(sk, e) ==
    IF e.kind = "START" THEN sk + 1 ELSE IF e.kind = "END" THEN sk - 1 ELSE sk

\* (mutant) every literal attribute is translated
TranslatesAttrAny(a) == extract_text /\ a.lit

\* "if extract_text and isinstance(value, basestring): if name in include_attrs"
TranslatesAttr(a) == extract_text /\ a.lit /\ a.name \in IncludeAttrs

\* "if extract_text and isinstance(value, basestring)": the attribute is not
\* handed to a nested call of the filter
KeepsAttr(a) == extract_text /\ a.lit

\* "search_text=not is_msg": what a SUB hands to the call on its substream,
\* whatever the search_text of the call that meets the SUB
SubSearchText(search_text, dirs) ==
    ~\E k \in 1..Len(dirs) : dirs[k].type = "msg"

\* (mutant) the SUB is yielded without its directives
SubEventBare(e, substream) == [e EXCEPT !.dirs = <<>>, !.sub = substream]

\* "yield kind, (directives, substream), pos"
SubEvent(e, substream) == [e EXCEPT !.sub = substream]

\* [d.domain for d in directives if isinstance(d, DomainDirective)]
CurrentDomain(dirs) ==
    LET doms == SelectSeq(dirs, LAMBDA d : d.type = "domain")
    IN  [k \in 1..Len(doms) |-> doms[k].domain]

RECURSIVE RunStream(_, _, _, _)
RECURSIVE RunFrom(_, _, _, _, _, _, _, _)
RECURSIVE HandleEvent(_, _, _, _, _)
RECURSIVE HandleAttrs(_, _, _, _, _, _)

\* The loop over the attributes of a START (lines 244-260), from the k-th.
HandleAttrs(attrs, k, cx, path, new_attrs, cs) ==
    IF k > Len(attrs)
    THEN [attrs |-> new_attrs, calls |-> cs, raised |-> ""]
    ELSE LET a == attrs[k] IN
         IF KeepsAttr(a)
         THEN IF TranslatesAttr(a)
              THEN HandleAttrs(attrs, k + 1, cx, path,
                               Append(new_attrs, [a EXCEPT !.val = Ugettext(a.val)]),
                               Append(cs, Call("gettext", "", a.val, path, "attr", k)))
              ELSE HandleAttrs(attrs, k + 1, cx, path, Append(new_attrs, a), cs)
         ELSE LET r == RunStream(Ensure(a), cx, FALSE, path \o <<-k>>) IN
              IF r.raised # ""
              THEN [attrs |-> new_attrs, calls |-> cs \o r.calls, raised |-> r.raised]
              ELSE HandleAttrs(attrs, k + 1, cx, path,
                               Append(new_attrs, Attr(a.name, FALSE, <<>>, r.out)),
                               cs \o r.calls)

\* One turn of "for kind, data, pos in stream" up to its yield: the event
\* yielded, the skip counter and the context then, the calls made, whether
\* ctxt.pop() is due after the yield, and the exception raised instead.
HandleEvent(e, sk, cx, search_text, path) ==
    LET pass == [ev |-> e, skip |-> sk, ctxt |-> cx, calls |-> <<>>,
                 raised |-> "", pop |-> FALSE]
    IN
    IF sk # 0
    THEN [pass EXCEPT !.skip = SkipStep(sk, e)]
    ELSE IF e.kind = "START"
    THEN IF Skips(e)
         THEN [pass EXCEPT !.skip = sk + 1]
         ELSE LET r == HandleAttrs(e.attrs, 1, cx, path, <<>>, <<>>) IN
              [pass EXCEPT !.ev = [e EXCEPT !.attrs = r.attrs],
                           !.calls = r.calls, !.raised = r.raised]
    ELSE IF search_text /\ e.kind = "TEXT"
    THEN LET text == Strip(e.text) IN
         IF text = <<>> THEN pass
         ELSE LET r == TextLookup(cx, text, path) IN
              [pass EXCEPT !.ev = [e EXCEPT !.text = Replace(e.text, text, r.result)],
                           !.calls = r.calls, !.raised = r.raised]
    ELSE IF e.kind = "SUB"
    THEN LET current_domain == CurrentDomain(e.dirs) IN
         IF current_domain # <<>> /\ ~has_ctxt
         THEN [pass EXCEPT !.raised = "AttributeError"]
         ELSE LET cx1 == IF current_domain # <<>>
                         THEN Append(cx, current_domain[1]) ELSE cx
                  r   == RunStream(e.sub, cx1, SubSearchText(search_text, e.dirs), path)
              IN  [pass EXCEPT !.ev = SubEvent(e, r.out),
                               !.ctxt = r.ctxt, !.calls = r.calls,
                               !.raised = r.raised,
                               !.pop = current_domain # <<>>]
    ELSE pass

\* The loop of one call, consumed to its end, from the i-th event.
RunFrom(stream, i, sk, cx, search_text, path, out, cs) ==
    IF i > Len(stream)
    THEN [out |-> out, calls |-> cs, ctxt |-> cx, raised |-> ""]
    ELSE LET h == HandleEvent(stream[i], sk, cx, search_text, Append(path, i)) IN
         IF h.raised # ""
         THEN [out |-> out, calls |-> cs \o h.calls, ctxt |-> h.ctxt, raised |-> h.raised]
         ELSE RunFrom(stream, i + 1, h.skip,
                      IF h.pop THEN Front(h.ctxt) ELSE h.ctxt,
                      search_text, path, Append(out, h.ev), cs \o h.calls)

\* list(self(stream, ctxt, search_text=...)): a nested call of the filter on a
\* substream or an attribute value, with a skip counter of its own.
RunStream(stream, cx, search_text, path) ==
    IF PrologueError # ""
    THEN [out |-> <<>>, calls |-> <<>>, ctxt |-> cx, raised |-> PrologueError]
    ELSE RunFrom(stream, 1, 0, cx, SearchText(search_text), path, <<>>, <<>>)

\* -------------------------------------------------------- extract_from_code

\* Translator.GETTEXT_FUNCTIONS, two of its names
GettextFunctions == {"_", "ngettext"}

\* A node of the tree of an expression (compiler.ast): a CallFunc has the
\* callee in node and its arguments in args, star_args and dstar_args (empty
\* for None), a Keyword and a Getattr have an expr, a Const a value, a Tuple
\* its items in args.
Node(type, name, value, node, expr, args, star_args, dstar_args) ==
    [type |-> type, name |-> name, value |-> value, node |-> node, expr |-> expr,
     args |-> args, star_args |-> star_args, dstar_args |-> dstar_args]

\* A value of a Const: a byte string, a unicode string or a number.
Value(kind, chars) == [kind |-> kind, chars |-> chars]

NoValue == Value("none", <<>>)

\* node.getChildNodes()
getChildNodes(n) == n.node \o n.expr \o n.args \o n.star_args \o n.dstar_args

RECURSIVE Utf8Decode(_)
\* The code points of a UTF-8 byte string: an ASCII byte is its character,
\* the bytes C3 A9 are U+00E9.
Utf8Decode(bytes) ==
    IF bytes = <<>> THEN <<>>
    ELSE IF Len(bytes) >= 2 /\ bytes[1] = "xC3" /\ bytes[2] = "xA9"
    THEN <<"U+00E9">> \o Utf8Decode(From(bytes, 3))
    ELSE <<Head(bytes)>> \o Utf8Decode(Tail(bytes))

\* An entry of strings: a text or None.
Entry(none, text) == [none |-> none, text |-> text]

\* (mutant) a keyword argument gets an entry as any other argument does
AddKeywordToo(acc, arg) ==
    IF acc.raised # "" THEN acc
    ELSE IF arg.type = "Const" /\ arg.value.kind \in {"str", "unicode"}
    THEN IF arg.value.kind = "unicode"
         THEN [acc EXCEPT !.raised = "TypeError"]
         ELSE [acc EXCEPT !.strings = Append(@, Entry(FALSE, Utf8Decode(arg.value.chars)))]
    ELSE [acc EXCEPT !.strings = Append(@, Entry(TRUE, <<>>))]

\* _add(arg) for an argument that is not None: the text of a string constant,
\* decoded (unicode(value, 'utf-8') raises TypeError for a value that is
\* unicode already), None for another argument, nothing for a Keyword.
Add(acc, arg) ==
    IF acc.raised # "" THEN acc
    ELSE IF arg.type = "Const" /\ arg.value.kind \in {"str", "unicode"}
    THEN IF arg.value.kind = "unicode"
         THEN [acc EXCEPT !.raised = "TypeError"]
         ELSE [acc EXCEPT !.strings = Append(@, Entry(FALSE, Utf8Decode(arg.value.chars)))]
    ELSE IF arg.type # "Keyword"
    THEN [acc EXCEPT !.strings = Append(@, Entry(TRUE, <<>>))]
    ELSE acc

RECURSIVE AddAll(_, _)
\* [_add(arg) for arg in node.args]; _add(node.star_args);
\* _add(node.dstar_args): None, here the empty sequence, adds nothing
AddAll(acc, nodes) ==
    IF nodes = <<>> THEN acc ELSE AddAll(Add(acc, Head(nodes)), Tail(nodes))

\* "if len(strings) == 1: strings = strings[0] else: strings = tuple(strings)"
Message(strings) == [bare |-> Len(strings) = 1, items |-> strings]

\* The node is a call of one of the gettext functions by its name.
Matches(n) ==
    /\ n.type = "CallFunc"
    /\ n.node[1].type = "Name"
    /\ n.node[1].name \in GettextFunctions

RECURSIVE Walk(_)
RECURSIVE WalkAll(_, _)
\* _walk(node), consumed to its end: the pairs yielded and the exception that
\* ends it, if any.
Walk(n) ==
    IF Matches(n)
    THEN LET acc == AddAll([strings |-> <<>>, raised |-> ""],
                           n.args \o n.star_args \o n.dstar_args)
         IN  IF acc.raised # ""
             THEN [out |-> <<>>, raised |-> acc.raised]
             ELSE [out |-> <<[name |-> n.node[1].name, message |-> Message(acc.strings)]>>,
                   raised |-> ""]
    ELSE WalkAll(getChildNodes(n), <<>>)

\* "for child in node.getChildNodes(): for ... in _walk(child): yield ..."
WalkAll(nodes, out) ==
    IF nodes = <<>> THEN [out |-> out, raised |-> ""]
    ELSE LET r == Walk(Head(nodes)) IN
         IF r.raised # "" THEN [out |-> out \o r.out, raised |-> r.raised]
         ELSE WalkAll(Tail(nodes), out \o r.out)

\* list(extract_from_code(code, gettext_functions))
extract_from_code(tree) == Walk(tree)

\* --------------------------------------------------------- Translator.extract

\* I18N_NAMESPACE['msg'] and I18N_NAMESPACE['comment']
I18nMsg == "i18n:msg"

I18nComment == "i18n:comment"

\* A tuple (lineno, funcname, message, comments) yielded, funcname "" for
\* None, with the top-level event at which it is yielded and what it is
\* yielded for: "attr", "text", "msg" or "code".
Tuple4(lineno, funcname, message, comments, at, what) ==
    [lineno |-> lineno, funcname |-> funcname, message |-> message,
     comments |-> comments, at |-> at, what |-> what]

\* A message that is one text.
TextMessage(text) == Message(<<Entry(FALSE, text)>>)

\* The tree of an expression, by its source: _("a"), and any other source as
\* a variable.
CodeOf(source) ==
    IF source = <<"_(a)">>
    THEN Node("CallFunc", "", NoValue, <<Node("Name", "_", NoValue, <<>>, <<>>, <<>>, <<>>, <<>>)>>,
              <<>>, <<Node("Const", "", Value("str", <<"a">>), <<>>, <<>>, <<>>, <<>>, <<>>)>>,
              <<>>, <<>>)
    ELSE Node("Name", "x", NoValue, <<>>, <<>>, <<>>, <<>>, <<>>)

\* filter(None, [ch.isalpha() for ch in text])
HasAlpha(text) == \E i \in 1..Len(text) : text[i] \in Letters

\* attrs.get(name): the attributes of that name, at most one
AttrsGet(attrs, name) == SelectSeq(attrs, LAMBDA a : a.name = name)

\* A msgbuf: None (open is FALSE) or a MessageBuffer with its fields (b), its
\* comment (empty for None) and its lineno.
MsgBuf(open, b, comment, lineno) ==
    [open |-> open, b |-> b, comment |-> comment, lineno |-> lineno]

NoMsgBuf == MsgBuf(FALSE, NewBuffer(<<>>), <<>>, 0)

\* "msg_params = attrs.get(i18n_msg); if type(msg_params) is list:
\* msg_params = msg_params[0][1]"
MsgParams(a) == IF a.lit THEN a.val ELSE a.evs[1].text

\* MessageBuffer(msg_params, attrs.get(i18n_comment), pos[1])
OpenMsgBuf(attrs, pos) ==
    LET c == AttrsGet(attrs, I18nComment) IN
    MsgBuf(TRUE, NewBuffer(MsgParams(AttrsGet(attrs, I18nMsg)[1])),
           IF c # <<>> /\ c[1].lit THEN c[1].val ELSE <<>>, pos)

\* The pairs of extract_from_code(data, gettext_functions) as tuples.
CodeTuples(pairs, pos, at) ==
    [i \in 1..Len(pairs) |->
        Tuple4(pos, pairs[i].name, pairs[i].message, <<>>, at, "code")]

\* (mutant) the skip counter is left as it is by an END
SkipAfterKept(sk, e) == IF sk > 0 /\ e.kind = "START" THEN sk + 1 ELSE sk

\* "if skip: if kind is START: skip += 1; if kind is END: skip -= 1"
SkipAfter(sk, e) ==
    IF sk > 0
    THEN IF e.kind = "START" THEN sk + 1 ELSE IF e.kind = "END" THEN sk - 1 ELSE sk
    ELSE sk

\* (mutant) a TEXT is appended to an open buffer whatever search_text is
TakesTextAlways(sk, search_text, m) == sk = 0 /\ (search_text \/ m.open)

\* "elif not skip and search_text and kind is TEXT"
TakesText(sk, search_text, m) == sk = 0 /\ search_text

RECURSIVE ExtractStream(_, _, _, _)
RECURSIVE ExtractFrom(_, _, _, _, _, _)
RECURSIVE ExtractEvent(_, _, _, _)
RECURSIVE ExtractAttrs(_, _, _, _, _, _)

\* The loop over the attributes of a START (lines 371-381), from the k-th.
ExtractAttrs(attrs, k, search_text, pos, at, out) ==
    IF k > Len(attrs) THEN [out |-> out, raised |-> ""]
    ELSE LET a == attrs[k] IN
         IF search_text /\ a.lit
         THEN IF a.name \in IncludeAttrs /\ Strip(a.val) # <<>>
              THEN ExtractAttrs(attrs, k + 1, search_text, pos, at,
                                Append(out, Tuple4(pos, "", TextMessage(Strip(a.val)),
                                                   <<>>, at, "attr")))
              ELSE ExtractAttrs(attrs, k + 1, search_text, pos, at, out)
         ELSE LET r == ExtractStream(Ensure(a), FALSE, NoMsgBuf, at) IN
              IF r.raised # ""
              THEN [out |-> out \o r.out, raised |-> r.raised]
              ELSE ExtractAttrs(attrs, k + 1, search_text, pos, at, out \o r.out)

\* One turn of "for kind, data, pos in stream" in a call whose state is st:
\* its skip counter, its msgbuf (m), whether that is the object it was
\* called with (same), and that object (passed).  It gives the state after the
\* turn, the tuples yielded in it and the exception raised, if any.
ExtractEvent(e, st, search_text, at) ==
    LET sk   == SkipAfter(st.skip, e)
        st1  == [st EXCEPT !.skip = sk]
        none == [st |-> st1, out |-> <<>>, raised |-> ""]
    IN
    IF e.kind = "START" /\ sk = 0
    THEN IF Skips(e)
         THEN [none EXCEPT !.st.skip = sk + 1]
         ELSE LET r == ExtractAttrs(e.attrs, 1, search_text, e.pos, at, <<>>) IN
              IF r.raised # ""
              THEN [none EXCEPT !.out = r.out, !.raised = r.raised]
              ELSE IF st.m.open
              THEN [none EXCEPT !.out = r.out, !.st.m.b = append(st.m.b, e)]
              ELSE IF AttrsGet(e.attrs, I18nMsg) # <<>>
              THEN [none EXCEPT !.out = r.out,
                                !.st.m = OpenMsgBuf(e.attrs, e.pos),
                                !.st.same = FALSE]
              ELSE [none EXCEPT !.out = r.out]
    ELSE IF TakesText(sk, search_text, st.m) /\ e.kind = "TEXT"
    THEN IF ~st.m.open
         THEN LET text == Strip(e.text) IN
              IF text # <<>> /\ HasAlpha(text)
              THEN [none EXCEPT !.out = <<Tuple4(e.pos, "", TextMessage(text), <<>>, at, "text")>>]
              ELSE none
         ELSE [none EXCEPT !.st.m.b = append(st.m.b, e)]
    ELSE IF sk = 0 /\ st.m.open /\ e.kind = "END"
    THEN LET b == append(st.m.b, e) IN
         IF b.depth = 0
         THEN [none EXCEPT
                 !.out = <<Tuple4(st.m.lineno, "", TextMessage(format(b.string)),
                                  IF st.m.comment # <<>> THEN <<st.m.comment>> ELSE <<>>,
                                  at, "msg")>>,
                 !.st.m = NoMsgBuf,
                 !.st.same = FALSE,
                 !.st.passed = IF st.same THEN [st.m EXCEPT !.b = b] ELSE st.passed]
         ELSE [none EXCEPT !.st.m.b = b]
    ELSE IF e.kind = "EXPR"
    THEN LET b == IF st.m.open THEN append(st.m.b, e) ELSE st.m.b IN
         IF b.raised # ""
         THEN [none EXCEPT !.raised = b.raised]
         ELSE LET r == extract_from_code(CodeOf(e.text)) IN
              [none EXCEPT !.st.m.b = b,
                           !.out = CodeTuples(r.out, e.pos, at),
                           !.raised = r.raised]
    ELSE IF e.kind = "SUB"
    THEN LET r == ExtractStream(e.sub, search_text /\ sk = 0, st.m, at) IN
         [none EXCEPT !.st.m = r.passed, !.out = r.out, !.raised = r.raised]
    ELSE none

\* The loop of one call, consumed to its end, from the i-th event.
ExtractFrom(stream, i, st, search_text, at, out) ==
    IF i > Len(stream)
    THEN [out |-> out, passed |-> IF st.same THEN st.m ELSE st.passed, raised |-> ""]
    ELSE LET h == ExtractEvent(stream[i], st, search_text, at) IN
         IF h.raised # ""
         THEN [out |-> out \o h.out,
               passed |-> IF h.st.same THEN h.st.m ELSE h.st.passed,
               raised |-> h.raised]
         ELSE ExtractFrom(stream, i + 1, h.st, search_text, at, out \o h.out)

\* self.extract(stream, gettext_functions, search_text=..., msgbuf=...) of a
\* substream or an attribute value, consumed to its end: the tuples, the
\* msgbuf object it was called with as it leaves it, and the exception.
ExtractStream(stream, search_text, m, at) ==
    ExtractFrom(stream, 1, [skip |-> 0, m |-> m, same |-> TRUE, passed |-> m],
                SearchText(search_text), at, <<>>)

\* ------------------------------------------------- inputs of parse_msg

\* A message string is written as a sequence of tokens: literal characters,
\* block openers and the block closer.
TextTokens == {"a", "["}

OpenTokens == {"[1:", "[2:"}

Tokens == TextTokens \cup OpenTokens \cup {"]"}

TokChars(t) ==
    CASE t = "[1:"   -> <<"[", "1", ":">>
      [] t = "[2:"   -> <<"[", "2", ":">>
      [] t = "%(n)s" -> <<"%", "(", "n", ")", "s">>
      [] OTHER       -> <<t>>

TokOrder(t) == IF t = "[1:" THEN 1 ELSE 2

RECURSIVE Flatten(_)
Flatten(ts) == IF ts = <<>> THEN <<>> ELSE TokChars(Head(ts)) \o Flatten(Tail(ts))

TokSeqs(n) == UNION {[1..k -> Tokens] : k \in 0..n}

NotParsed == [raised |-> "", parts |-> <<>>]

\* The buffer while only parse_msg is run, and parse_msg while only a buffer is.
IdleBuffer ==
    /\ params = <<>> /\ string = <<>> /\ events = <<>> /\ values = <<>>
    /\ depth = 1 /\ order = 1 /\ stack = <<0>>
    /\ appended = <<>> /\ bpc = "idle" /\ trans = <<>> /\ captured = <<>>
    /\ yielded = <<>> /\ raised = ""

IdleParse == msg = <<>> /\ parsed = NotParsed /\ ppc = "idle"

\* The scanner while no expression is scanned.
NotScanned == [out |-> <<>>, raised |-> ""]

IdleScan ==
    /\ code = Node("Name", "x", NoValue, <<>>, <<>>, <<>>, <<>>, <<>>)
    /\ found = NotScanned /\ spc = "idle"

\* The extraction while no stream is walked.
IdleEx ==
    /\ exinput = <<>> /\ exout = <<>> /\ exskip = 0 /\ msgbuf = NoMsgBuf
    /\ expc = "idle" /\ exerr = ""

\* The replay while translate is modelled as one step.
IdleReplay == rstring = <<>> /\ rstack = <<>> /\ rparts = <<>> /\ rpc = "idle"

\* The filter while no stream is filtered.
IdleTr ==
    /\ extract_text = TRUE /\ translate_kind = "object" /\ has_ctxt = FALSE
    /\ skip = 0 /\ ctxt = <<>> /\ input = <<>> /\ output = <<>>
    /\ calls = <<>> /\ tpc = "idle" /\ pend = FALSE /\ terr = ""

InitParse ==
    /\ msg \in TokSeqs(MaxTokens)
    /\ parsed = NotParsed
    /\ ppc = "init"
    /\ IdleBuffer
    /\ IdleTr
    /\ IdleScan
    /\ IdleEx
    /\ IdleReplay

ParseMsg ==
    /\ ppc = "init"
    /\ parsed' = parse_msg(Flatten(msg))
    /\ ppc' = "done"
    /\ UNCHANGED msg
    /\ UNCHANGED bvars
    /\ UNCHANGED tvars
    /\ UNCHANGED svars
    /\ UNCHANGED xvars
    /\ UNCHANGED rvars

NextParse == ParseMsg

SpecParse == InitParse /\ [][NextParse]_vars

\* ------------------------------------------- a MessageBuffer and its inputs

\* The parameter declarations a buffer is created with: u'' (the default of
\* __init__) and 'n'.
ParamDecls == {<<>>, <<"n">>}

\* The strings of the TEXT events appended: " a" (text after white space)
\* and "a]" (text that holds a bracket of its own).
TextData == {<<" ", "a">>, <<"a", "]">>}

\* The only attribute of the elements appended: href="h".
HrefAttrs == <<[name |-> "href", lit |-> TRUE, val |-> <<"h">>, evs |-> <<>>]>>

\* The tokens a translated string is written from.
TransTokens == {"a", "[1:", "]", "%(n)s"}

TransTokSeqs(n) == UNION {[1..k -> TransTokens] : k \in 0..n}

\* The buffer as one record, and the fields of a record put back.
Buf ==
    [params |-> params, string |-> string, events |-> events, values |-> values,
     depth |-> depth, order |-> order, stack |-> stack, raised |-> ""]

SetBuf(b) ==
    /\ params' = b.params /\ string' = b.string /\ events' = b.events
    /\ values' = b.values /\ depth' = b.depth /\ order' = b.order
    /\ stack' = b.stack /\ raised' = b.raised

InitBuf ==
    /\ \E decl \in ParamDecls :
          LET b == NewBuffer(decl) IN
          /\ params = b.params /\ string = b.string /\ events = b.events
          /\ values = b.values /\ depth = b.depth /\ order = b.order
          /\ stack = b.stack /\ raised = b.raised
    /\ appended = <<>> /\ bpc = "append" /\ trans = <<>> /\ captured = <<>>
    /\ yielded = <<>>
    /\ IdleParse
    /\ IdleTr
    /\ IdleScan
    /\ IdleEx
    /\ IdleReplay

\* msgbuf.append(*event) for the next event e of the marked region.
AppendStep(e) ==
    /\ bpc = "append"
    /\ Len(appended) < MaxEvents
    /\ LET b == append(Buf, e) IN
       /\ SetBuf(b)
       /\ IF b.raised # ""
          THEN bpc' = "failed" /\ UNCHANGED appended
          ELSE /\ appended' = Append(appended, e)
               /\ bpc' = IF b.depth = 0 THEN "closed" ELSE "append"
    /\ UNCHANGED <<trans, captured, yielded>>
    /\ UNCHANGED pvars
    /\ UNCHANGED tvars
    /\ UNCHANGED svars
    /\ UNCHANGED xvars
    /\ UNCHANGED rvars

NextPos == Len(appended) + 1

AppendText ==
    \E t \in TextData : AppendStep(Ev("TEXT", t, "", <<>>, <<>>, <<>>, NextPos))

AppendExpr == AppendStep(Ev("EXPR", <<"x">>, "", <<>>, <<>>, <<>>, NextPos))

AppendStart == AppendStep(Ev("START", <<>>, "a", HrefAttrs, <<>>, <<>>, NextPos))

\* the END of an element opened inside the region
AppendEnd ==
    /\ depth > 1
    /\ AppendStep(Ev("END", <<>>, "a", <<>>, <<>>, <<>>, NextPos))

\* the END of the element that carries the region (Translator.extract only)
AppendOwnEnd ==
    /\ depth = 1
    /\ AppendStep(Ev("END", <<>>, "p", <<>>, <<>>, <<>>, NextPos))

\* msgbuf.translate(s), consumed to its end, for a complete region: s is the
\* buffer's own identifier (own) or a string written from tokens.
TranslateWith(own, toks, str) ==
    /\ bpc = "append"
    /\ depth = 1
    /\ LET r == translate(str, events, values) IN
       /\ events' = r.events
       /\ yielded' = r.out
       /\ raised' = r.raised
    /\ trans' = [own |-> own, toks |-> toks, str |-> str]
    /\ captured' = events
    /\ bpc' = "translated"
    /\ UNCHANGED <<params, string, values, depth, order, stack, appended>>
    /\ UNCHANGED pvars
    /\ UNCHANGED tvars
    /\ UNCHANGED svars
    /\ UNCHANGED xvars
    /\ UNCHANGED rvars

TranslateOwn == TranslateWith(TRUE, <<>>, format(string))

\* A second msgbuf.translate(s) on the same buffer, with the same string,
\* consumed to its end: "first" is the number of events the first call
\* yielded, and yielded holds what both calls yield.
TranslateAgain ==
    /\ bpc = "translated"
    /\ LET r == translate(trans.str, events, values) IN
       /\ events' = r.events
       /\ yielded' = yielded \o r.out
       /\ raised' = r.raised
    /\ trans' = [own |-> trans.own, toks |-> trans.toks, str |-> trans.str,
                 first |-> Len(yielded)]
    /\ captured' = events
    /\ bpc' = "again"
    /\ UNCHANGED <<params, string, values, depth, order, stack, appended>>
    /\ UNCHANGED pvars
    /\ UNCHANGED tvars
    /\ UNCHANGED svars
    /\ UNCHANGED xvars
    /\ UNCHANGED rvars

TranslateOther ==
    \E toks \in TransTokSeqs(MaxTransTokens) :
        TranslateWith(FALSE, toks, Flatten(toks))

NextBuf ==
    \/ AppendText
    \/ AppendExpr
    \/ AppendStart
    \/ AppendEnd
    \/ AppendOwnEnd
    \/ TranslateOwn
    \/ TranslateOther
    \/ TranslateAgain

SpecBuf == InitBuf /\ [][NextBuf]_vars

\* ------------------------------------------------ a Translator and its stream

\* The events of the stream filtered.  The stream is a template's: elements
\* nest, a SUB carries the directives of an element and the events of that
\* element, and an attribute value with an expression is a stream of TEXT and
\* EXPR events.
StreamPos == 1

TextIn == Ev("TEXT", <<" ", "a", " ">>, "", <<>>, <<>>, <<>>, StreamPos)

\* a text without a letter, and a text of whitespace
PunctIn == Ev("TEXT", <<" ", ".">>, "", <<>>, <<>>, <<>>, StreamPos)

BlankIn == Ev("TEXT", <<" ">>, "", <<>>, <<>>, <<>>, StreamPos)

ExprIn == Ev("EXPR", <<"x">>, "", <<>>, <<>>, <<>>, StreamPos)

EndIn == Ev("END", <<>>, "p", <<>>, <<>>, <<>>, StreamPos)

\* <p title="a" class="a" alt="a${x}">
PlainStart ==
    Ev("START", <<>>, "p",
       <<Attr("title", TRUE, <<"a">>, <<>>), Attr("class", TRUE, <<"a">>, <<>>),
         Attr("alt", FALSE, <<>>, <<TextIn, ExprIn>>)>>,
       <<>>, <<>>, StreamPos)

\* <script title="a">
ScriptStart ==
    Ev("START", <<>>, "script", <<Attr("title", TRUE, <<"a">>, <<>>)>>,
       <<>>, <<>>, StreamPos)

\* <p xml:lang="en" title="a">
LangStart ==
    Ev("START", <<>>, "p",
       <<Attr(XmlLang, TRUE, <<"e", "n">>, <<>>), Attr("title", TRUE, <<"a">>, <<>>)>>,
       <<>>, <<>>, StreamPos)

MsgDirective == [type |-> "msg", domain |-> ""]

DomainDirective == [type |-> "domain", domain |-> "d"]

\* any other directive, py:if say
OtherDirective == [type |-> "if", domain |-> ""]

SubIn(dirs, sub) == Ev("SUB", <<>>, "", <<>>, dirs, sub, StreamPos)

DirectiveLists == {<<MsgDirective>>, <<DomainDirective>>, <<OtherDirective>>}

\* The substreams of the SUB events: an element with a text, a skipped
\* element with a text, and a SUB with a text.
SubStreams ==
    { <<PlainStart, TextIn, EndIn>>,
      <<ScriptStart, TextIn, EndIn>>,
      <<SubIn(<<OtherDirective>>, <<TextIn>>)>> }

StreamEvents ==
    {TextIn, ExprIn, EndIn, PlainStart, ScriptStart, LangStart}
        \cup {SubIn(dirs, sub) : dirs \in DirectiveLists, sub \in SubStreams}

\* The elements open after a stream of events.
RECURSIVE OpenDepth(_)
OpenDepth(evs) ==
    IF evs = <<>> THEN 0
    ELSE OpenDepth(Front(evs))
           + (IF Last(evs).kind = "START" THEN 1
              ELSE IF Last(evs).kind = "END" THEN -1 ELSE 0)

InitTr ==
    /\ extract_text \in BOOLEAN
    /\ translate_kind \in {"function", "object", "domain_object"}
    /\ has_ctxt \in BOOLEAN
    /\ skip = 0 /\ ctxt = <<>> /\ input = <<>> /\ output = <<>>
    /\ calls = <<>> /\ tpc = "new" /\ pend = FALSE /\ terr = ""
    /\ IdleParse
    /\ IdleBuffer
    /\ IdleScan
    /\ IdleEx
    /\ IdleReplay

\* The first next() of the generator, up to the loop (lines 202-222).
Begin ==
    /\ tpc = "new"
    /\ IF PrologueError # ""
       THEN tpc' = "raised" /\ terr' = PrologueError
       ELSE tpc' = "running" /\ UNCHANGED terr
    /\ UNCHANGED <<extract_text, translate_kind, has_ctxt, skip, ctxt, input,
                   output, calls, pend>>
    /\ UNCHANGED pvars
    /\ UNCHANGED bvars
    /\ UNCHANGED svars
    /\ UNCHANGED xvars
    /\ UNCHANGED rvars

\* (mutant) no ctxt.pop() after the yield
ResumedNoPop == ctxt

\* The context once the generator is resumed: the ctxt.pop() after the yield
\* of a SUB that pushed a domain.
Resumed == IF pend THEN Front(ctxt) ELSE ctxt

\* next() of the generator when the stream has the event e next: the code
\* after the last yield, and the turn of the loop for e up to its yield or
\* to the exception it raises.
NextEvent(e) ==
    /\ tpc = "running"
    /\ Len(input) < MaxStream
    /\ e.kind = "END" => OpenDepth(input) > 0
    /\ input' = Append(input, e)
    /\ LET h == HandleEvent(e, skip, Resumed, SearchText(TRUE), <<Len(input) + 1>>) IN
       /\ calls' = calls \o h.calls
       /\ ctxt' = h.ctxt
       /\ IF h.raised # ""
          THEN /\ tpc' = "raised" /\ terr' = h.raised
               /\ pend' = FALSE
               /\ UNCHANGED <<output, skip>>
          ELSE /\ output' = Append(output, h.ev)
               /\ skip' = h.skip
               /\ pend' = h.pop
               /\ UNCHANGED <<tpc, terr>>
    /\ UNCHANGED <<extract_text, translate_kind, has_ctxt>>
    /\ UNCHANGED pvars
    /\ UNCHANGED bvars
    /\ UNCHANGED svars
    /\ UNCHANGED xvars
    /\ UNCHANGED rvars

NextText == \E e \in {TextIn, BlankIn} : NextEvent(e)

NextExpr == NextEvent(ExprIn)

NextStart == \E e \in {PlainStart, ScriptStart, LangStart} : NextEvent(e)

NextEnd == NextEvent(EndIn)

NextSub == \E dirs \in DirectiveLists, sub \in SubStreams : NextEvent(SubIn(dirs, sub))

\* next() of the generator when the stream has ended.
Finish ==
    /\ tpc = "running"
    /\ OpenDepth(input) = 0
    /\ ctxt' = Resumed
    /\ pend' = FALSE
    /\ tpc' = "done"
    /\ UNCHANGED <<extract_text, translate_kind, has_ctxt, skip, input, output,
                   calls, terr>>
    /\ UNCHANGED pvars
    /\ UNCHANGED bvars
    /\ UNCHANGED svars
    /\ UNCHANGED xvars
    /\ UNCHANGED rvars

NextTr ==
    \/ Begin
    \/ NextText
    \/ NextExpr
    \/ NextStart
    \/ NextEnd
    \/ NextSub
    \/ Finish

SpecTr == InitTr /\ [][NextTr]_vars

\* ------------------------------------------- the expressions that are scanned

Leaf(type, name, value) == Node(type, name, value, <<>>, <<>>, <<>>, <<>>, <<>>)

\* "a" and "\xc3\xa9" (byte strings), u"a", 1, the variable num, k="a"
StrA == Leaf("Const", "", Value("str", <<"a">>))

StrE == Leaf("Const", "", Value("str", <<"xC3", "xA9">>))

UniA == Leaf("Const", "", Value("unicode", <<"a">>))

Num == Leaf("Const", "", Value("int", <<"1">>))

Var == Leaf("Name", "num", NoValue)

Keyword(e) == Node("Keyword", "k", NoValue, <<>>, <<e>>, <<>>, <<>>, <<>>)

ArgLeaves == {StrA, StrE, UniA, Num, Var, Keyword(StrA)}

ArgSeqs(n) == UNION {[1..k -> ArgLeaves] : k \in 0..n}

\* The callees: the names _, ngettext and f, and the attribute t._
Callees ==
    {Leaf("Name", "_", NoValue), Leaf("Name", "ngettext", NoValue),
     Leaf("Name", "f", NoValue),
     Node("Getattr", "_", NoValue, <<>>, <<Leaf("Name", "t", NoValue)>>, <<>>, <<>>, <<>>)}

CallFunc(callee, args, star_args, dstar_args) ==
    Node("CallFunc", "", NoValue, <<callee>>, <<>>, args, star_args, dstar_args)

\* *num or no star argument
StarArgs == {<<>>, <<Var>>}

\* The calls whose arguments are not calls.
SimpleCalls ==
    {CallFunc(c, args, st, ds) :
        c \in Callees, args \in ArgSeqs(MaxArgs), st \in StarArgs, ds \in StarArgs}

\* The calls put inside another expression.
InnerCalls == {CallFunc(c, args, <<>>, <<>>) : c \in Callees, args \in ArgSeqs(1)}

\* A call as an argument, as a keyword argument and as the star argument of a
\* call of _ and of f, and two calls in a tuple.
Nesting(inner) ==
    {CallFunc(c, <<inner>>, <<>>, <<>>) : c \in Callees}
        \cup {CallFunc(c, <<StrA, Keyword(inner)>>, <<>>, <<>>) : c \in Callees}
        \cup {CallFunc(c, <<>>, <<inner>>, <<>>) : c \in Callees}

Tuples ==
    {Node("Tuple", "", NoValue, <<>>, <<>>, <<a, b>>, <<>>, <<>>) :
        a \in InnerCalls, b \in InnerCalls}

Expressions == SimpleCalls \cup UNION {Nesting(inner) : inner \in InnerCalls} \cup Tuples

InitScan ==
    /\ code \in Expressions
    /\ found = NotScanned
    /\ spc = "init"
    /\ IdleParse
    /\ IdleBuffer
    /\ IdleTr
    /\ IdleEx
    /\ IdleReplay

Scan ==
    /\ spc = "init"
    /\ found' = extract_from_code(code)
    /\ spc' = "done"
    /\ UNCHANGED code
    /\ UNCHANGED pvars
    /\ UNCHANGED bvars
    /\ UNCHANGED tvars
    /\ UNCHANGED xvars
    /\ UNCHANGED rvars

NextScan == Scan

SpecScan == InitScan /\ [][NextScan]_vars

\* ------------------------------------------- the streams that are extracted

\* ${_("a")}
CallExpr == Ev("EXPR", <<"_(a)">>, "", <<>>, <<>>, <<>>, StreamPos)

\* <p title=" a" class="a" alt="a${_('a')}">
TitledStart ==
    Ev("START", <<>>, "p",
       <<Attr("title", TRUE, <<" ", "a">>, <<>>), Attr("class", TRUE, <<"a">>, <<>>),
         Attr("alt", FALSE, <<>>, <<TextIn, CallExpr>>)>>,
       <<>>, <<>>, StreamPos)

\* <p i18n:msg="n" i18n:comment="c">
MsgStart ==
    Ev("START", <<>>, "p",
       <<Attr(I18nMsg, TRUE, <<"n">>, <<>>), Attr(I18nComment, TRUE, <<"c">>, <<>>)>>,
       <<>>, <<>>, StreamPos)

\* The substreams of the SUB events: an element with a text, and an element
\* with a msg declaration and a text.
ExSubStreams == { <<TitledStart, TextIn, EndIn>>, <<MsgStart, TextIn, EndIn>> }

ExEvents ==
    {TextIn, CallExpr, EndIn, TitledStart, MsgStart, ScriptStart}
        \cup {SubIn(<<OtherDirective>>, sub) : sub \in ExSubStreams}

RECURSIVE AtLine(_, _)
\* The event as found on a line: the line is the pos of the event, of the
\* events of its substream and of the events of its attribute values.
AtLine(e, line) ==
    LET sub   == e.sub
        attrs == e.attrs
    IN  [e EXCEPT !.pos = line,
                  !.sub = [i \in 1..Len(sub) |-> AtLine(sub[i], line)],
                  !.attrs = [k \in 1..Len(attrs) |->
                               LET evs == attrs[k].evs IN
                               [attrs[k] EXCEPT
                                  !.evs = [i \in 1..Len(evs) |-> AtLine(evs[i], line)]]]]

InitEx ==
    /\ extract_text \in BOOLEAN
    /\ translate_kind = "object" /\ has_ctxt = FALSE
    /\ skip = 0 /\ ctxt = <<>> /\ input = <<>> /\ output = <<>>
    /\ calls = <<>> /\ tpc = "idle" /\ pend = FALSE /\ terr = ""
    /\ exinput = <<>> /\ exout = <<>> /\ exskip = 0 /\ msgbuf = NoMsgBuf
    /\ expc = "running" /\ exerr = ""
    /\ IdleParse
    /\ IdleBuffer
    /\ IdleScan
    /\ IdleReplay

\* The turn of the loop of the top-level call for the next event of the
\* stream, e, found on the next line: all the tuples it yields, or the
\* exception it raises after some.
ExtractNext(e0) ==
    /\ expc = "running"
    /\ Len(exinput) < MaxExStream
    /\ e0.kind = "END" => OpenDepth(exinput) > 0
    /\ LET at == Len(exinput) + 1
           e  == AtLine(e0, at)
           h  == ExtractEvent(e, [skip |-> exskip, m |-> msgbuf, same |-> FALSE,
                                  passed |-> NoMsgBuf],
                              SearchText(TRUE), at)
       IN  /\ exinput' = Append(exinput, e)
           /\ exout' = exout \o h.out
           /\ IF h.raised # ""
              THEN /\ expc' = "raised" /\ exerr' = h.raised
                   /\ UNCHANGED <<exskip, msgbuf>>
              ELSE /\ exskip' = h.st.skip
                   /\ msgbuf' = h.st.m
                   /\ UNCHANGED <<expc, exerr>>
    /\ UNCHANGED pvars
    /\ UNCHANGED bvars
    /\ UNCHANGED tvars
    /\ UNCHANGED svars
    /\ UNCHANGED rvars

ExtractText == \E e \in {TextIn, PunctIn, BlankIn} : ExtractNext(e)

ExtractExpr == ExtractNext(CallExpr)

ExtractStart ==
    \E e \in {TitledStart, MsgStart, ScriptStart, LangStart} : ExtractNext(e)

ExtractEnd == ExtractNext(EndIn)

ExtractSub == \E sub \in ExSubStreams : ExtractNext(SubIn(<<OtherDirective>>, sub))

\* The stream has ended.
ExtractFinish ==
    /\ expc = "running"
    /\ OpenDepth(exinput) = 0
    /\ expc' = "done"
    /\ UNCHANGED <<exinput, exout, exskip, msgbuf, exerr>>
    /\ UNCHANGED pvars
    /\ UNCHANGED bvars
    /\ UNCHANGED tvars
    /\ UNCHANGED svars
    /\ UNCHANGED rvars

NextEx ==
    \/ ExtractText
    \/ ExtractExpr
    \/ ExtractStart
    \/ ExtractEnd
    \/ ExtractSub
    \/ ExtractFinish

SpecEx == InitEx /\ [][NextEx]_vars

\* ------------------------------------------- Translator.__call__: properties

\* The stream and the event a path leads to in a stream.
RECURSIVE StreamAt(_, _)
StreamAt(stream, path) ==
    IF path = <<>> THEN stream ELSE StreamAt(stream[Head(path)].sub, Tail(path))

EventAt(stream, path) == StreamAt(stream, Front(path))[Last(path)]

\* An element that is not to be localized: its tag is in the ignore set or it
\* has an xml:lang attribute with a literal value.
Ignorable(e) ==
    /\ e.kind = "START"
    /\ \/ e.tag \in IgnoreTags
       \/ \E k \in 1..Len(e.attrs) : e.attrs[k].name = XmlLang /\ e.attrs[k].lit

\* The i-th event of a stream lies between the START of such an element and
\* its matching END, both included.
InScope(stream, i) ==
    \E j \in 1..i :
        /\ Ignorable(stream[j])
        /\ \A m \in j..(i - 1) : OpenDepth(SubSeq(stream, j, m)) > 0

\* The call is made for an event in such a scope, or in a SUB in one.
CallInScope(c) ==
    \E k \in 1..Len(c.path) :
        InScope(StreamAt(input, SubSeq(c.path, 1, k - 1)), c.path[k])

RECURSIVE SameStructure(_, _)
\* out has the events of in, one for one: only the string of a TEXT and the
\* values of the attributes of a START differ, and the substream of a SUB is
\* again of the same structure.
SameStructure(in, out) ==
    /\ Len(out) = Len(in)
    /\ \A i \in 1..Len(in) :
          LET a == in[i]
              b == out[i]
          IN  /\ b.kind = a.kind
              /\ b.pos = a.pos
              /\ IF a.kind = "TEXT" THEN [b EXCEPT !.text = a.text] = a
                 ELSE IF a.kind = "START"
                 THEN /\ [b EXCEPT !.attrs = a.attrs] = a
                      /\ Len(b.attrs) = Len(a.attrs)
                      /\ \A k \in 1..Len(a.attrs) : b.attrs[k].name = a.attrs[k].name
                 ELSE IF a.kind = "SUB"
                 THEN /\ b.dirs = a.dirs
                      /\ [b EXCEPT !.sub = a.sub] = a
                      /\ SameStructure(a.sub, b.sub)
                 ELSE b = a

RECURSIVE SkipKept(_, _)
\* The events of out in a scope not to be localized are those of in, in the
\* stream and in the substreams of the SUB events outside such a scope.
SkipKept(in, out) ==
    \A i \in 1..Len(out) :
        /\ InScope(in, i) => out[i] = in[i]
        /\ (~InScope(in, i) /\ in[i].kind = "SUB") => SkipKept(in[i].sub, out[i].sub)

\* C8: between the START of an element with an ignored tag or a literal
\* xml:lang and its matching END, no text and no attribute value is passed to
\* the translation function, the content of the SUB events there included,
\* and every event there is yielded as it was pulled.
C8_SkipScope ==
    /\ \A n \in 1..Len(calls) : ~CallInScope(calls[n])
    /\ \A i \in 1..Len(input) : InScope(input, i) => i <= Len(output)
    /\ SkipKept(SubSeq(input, 1, Len(output)), output)

\* An element with a literal xml:lang and a title, a SUB in it and its END
\* have been filtered, text search being on.
C8_Witness ==
    /\ extract_text
    /\ Len(output) = 3
    /\ input[1] = LangStart
    /\ input[2].kind = "SUB"
    /\ input[3].kind = "END"

AttrCalls(path, k) ==
    {n \in 1..Len(calls) :
        calls[n].what = "attr" /\ calls[n].path = path /\ calls[n].attr = k}

\* The k-th attribute of the START at the path, a literal one: translated
\* (b is what is yielded for a)
AttrTranslated(a, b, path, k) ==
    /\ b = [a EXCEPT !.val = Ugettext(a.val)]
    /\ \E n \in AttrCalls(path, k) : calls[n].arg = a.val

\* ... and neither translated nor changed
AttrUntouched(a, b, path, k) == b = a /\ AttrCalls(path, k) = {}

RECURSIVE AttrsAsClaimed(_, _, _)
\* For every setting of extract_text: a literal attribute of a START outside
\* a skip scope is translated if its name is in the include set, and is
\* neither passed to the translation function nor changed if it is not.
AttrsAsClaimed(in, out, path) ==
    \A i \in 1..Len(out) :
        /\ (in[i].kind = "START" /\ ~InScope(in, i)) =>
              \A k \in 1..Len(in[i].attrs) :
                  LET a == in[i].attrs[k]
                      b == out[i].attrs[k]
                  IN  a.lit =>
                        IF a.name \in IncludeAttrs
                        THEN AttrTranslated(a, b, Append(path, i), k)
                        ELSE AttrUntouched(a, b, Append(path, i), k)
        /\ (in[i].kind = "SUB" /\ ~InScope(in, i)) =>
              AttrsAsClaimed(in[i].sub, out[i].sub, Append(path, i))

RECURSIVE AttrsByExtractText(_, _, _)
\* The same with extract_text on; with extract_text off no literal attribute is
\* passed to the translation function, and each is yielded as the list of
\* events of a nested call, no longer as a string.
AttrsByExtractText(in, out, path) ==
    \A i \in 1..Len(out) :
        /\ (in[i].kind = "START" /\ ~InScope(in, i)) =>
              \A k \in 1..Len(in[i].attrs) :
                  LET a == in[i].attrs[k]
                      b == out[i].attrs[k]
                  IN  a.lit =>
                        IF ~extract_text
                        THEN /\ b.name = a.name /\ ~b.lit
                             /\ AttrCalls(Append(path, i), k) = {}
                        ELSE IF a.name \in IncludeAttrs
                        THEN AttrTranslated(a, b, Append(path, i), k)
                        ELSE AttrUntouched(a, b, Append(path, i), k)
        /\ (in[i].kind = "SUB" /\ ~InScope(in, i)) =>
              AttrsByExtractText(in[i].sub, out[i].sub, Append(path, i))

IsMsgSub(path) ==
    LET e == EventAt(input, path) IN
    e.kind = "SUB" /\ \E k \in 1..Len(e.dirs) : e.dirs[k].type = "msg"

\* C10: no TEXT in the substream of a SUB with a MsgDirective, at any depth
\* of nesting in it, is passed to the translation function.
C10_NoTextOfMsgTranslated ==
    \A n \in 1..Len(calls) :
        calls[n].what = "text" =>
            \A k \in 1..(Len(calls[n].path) - 1) :
                ~IsMsgSub(SubSeq(calls[n].path, 1, k))

RECURSIVE TextAndStartKept(_, _)
\* Every TEXT and every START of out is the event of in, in the stream and in
\* the substreams of its SUB events.
TextAndStartKept(in, out) ==
    \A i \in 1..Len(out) :
        /\ in[i].kind \in {"TEXT", "START"} => out[i] = in[i]
        /\ in[i].kind = "SUB" => TextAndStartKept(in[i].sub, out[i].sub)

\* C13: with extract_text off the translation function is never called, and
\* every TEXT and every START is yielded as it was pulled, the literal values
\* of its attributes included.
C13_NothingTouchedIfNotExtracting ==
    ~extract_text =>
        /\ calls = <<>>
        /\ TextAndStartKept(SubSeq(input, 1, Len(output)), output)

\* The event is a SUB with a DomainDirective.
IsDomainSub(e) ==
    e.kind = "SUB" /\ \E k \in 1..Len(e.dirs) : e.dirs[k].type = "domain"

RECURSIVE TextsPlainlyTranslated(_, _)
\* Every TEXT of out outside a skip scope is the TEXT of in with its stripped
\* string replaced by the plain translation of it.
TextsPlainlyTranslated(in, out) ==
    /\ Len(out) = Len(in)
    /\ \A i \in 1..Len(in) :
          /\ (in[i].kind = "TEXT" /\ ~InScope(in, i)) =>
                out[i].text = Replace(in[i].text, Strip(in[i].text),
                                      Ugettext(Strip(in[i].text)))
          /\ (in[i].kind = "SUB" /\ ~InScope(in, i)) =>
                TextsPlainlyTranslated(in[i].sub, out[i].sub)

\* C19: with an object that has ugettext but no dugettext, a SUB with a
\* DomainDirective is filtered without an error, and every TEXT in its
\* substream is translated with ugettext (text search being on, and a context
\* given to hold the domain).
C19_DomainFallback ==
    (translate_kind = "object" /\ has_ctxt /\ extract_text) =>
        \A i \in 1..Len(input) :
            IsDomainSub(input[i]) /\ ~InScope(input, i) =>
                /\ i <= Len(output)
                /\ TextsPlainlyTranslated(input[i].sub, output[i].sub)

RECURSIVE NoDomain(_)
\* No SUB of the stream has a DomainDirective, at any depth.
NoDomain(stream) ==
    \A i \in 1..Len(stream) :
        ~IsDomainSub(stream[i]) /\ NoDomain(stream[i].sub)

\* C20: with a plain function as translate, a stream in which no domain is
\* ever active is filtered without an exception, with or without a context:
\* every event pulled is yielded.
C20_FunctionWithoutDomain ==
    (translate_kind = "function" /\ NoDomain(input)) =>
        /\ terr = ""
        /\ tpc # "raised"
        /\ Len(output) = Len(input)

\* ------------------------------------------------ parse_msg: properties

\* The segments of a token sequence, read off the tokens themselves: the text
\* between two bracket tokens (or an end of the input), with the order of the
\* innermost block open there, and whether it is the one after the last
\* bracket token.  The order is -1 once a "]" has closed the root.
RefTop(stk) == IF stk = <<>> THEN -1 ELSE Last(stk)

RECURSIVE RefWalk(_, _, _, _)
RefWalk(ts, stk, cur, segs) ==
    IF ts = <<>>
    THEN Append(segs, [order |-> RefTop(stk), text |-> cur, trailing |-> TRUE])
    ELSE LET t   == Head(ts)
             seg == [order |-> RefTop(stk), text |-> cur, trailing |-> FALSE]
         IN  IF t \in TextTokens
             THEN RefWalk(Tail(ts), stk, cur \o TokChars(t), segs)
             ELSE IF t = "]"
             THEN RefWalk(Tail(ts), Front(stk), <<>>, Append(segs, seg))
             ELSE RefWalk(Tail(ts), Append(stk, TokOrder(t)), <<>>, Append(segs, seg))

RefSegments(ts) == RefWalk(ts, <<0>>, <<>>, <<>>)

RECURSIVE RefDepth(_, _)
\* the number of blocks open after the tokens ts, -1 if a "]" had none to close
RefDepth(ts, d) ==
    IF ts = <<>> THEN d
    ELSE IF Head(ts) \in TextTokens THEN RefDepth(Tail(ts), d)
    ELSE IF Head(ts) = "]" THEN (IF d = 0 THEN -1 ELSE RefDepth(Tail(ts), d - 1))
    ELSE RefDepth(Tail(ts), d + 1)

Balanced(ts) == RefDepth(ts, 0) = 0

\* the fragments (order, text) of the segments that keep(seg) selects, in order
SelectSeg(segs, keep(_)) ==
    LET kept == SelectSeq(segs, keep)
    IN  [i \in 1..Len(kept) |-> [order |-> kept[i].order, text |-> kept[i].text]]

RECURSIVE PartTexts(_)
PartTexts(ps) == IF ps = <<>> THEN <<>> ELSE Head(ps).text \o PartTexts(Tail(ps))

RECURSIVE NonEmptyParts(_)
NonEmptyParts(ps) ==
    IF ps = <<>> THEN <<>>
    ELSE (IF Head(ps).text # <<>> THEN <<Head(ps)>> ELSE <<>>) \o NonEmptyParts(Tail(ps))

IsText(t) == t \in TextTokens

SegNonEmpty(seg) == seg.text # <<>>

\* C4: for a bracket-balanced message, parse_msg returns the text fragments
\* left to right, each tagged with the order of the innermost block around it
\* (0 outside every block), and their texts concatenated are the message
\* without its "[N:" and "]" tokens.
C4_FragmentsInOrder ==
    (ppc = "done" /\ Balanced(msg)) =>
        /\ parsed.raised = ""
        /\ NonEmptyParts(parsed.parts) = SelectSeg(RefSegments(msg), SegNonEmpty)
        /\ PartTexts(parsed.parts) = Flatten(SelectSeq(msg, IsText))

\* "[1:a[2:a]a]": the nesting example of the doctest, without the root text.
C4_Witness ==
    /\ ppc = "done"
    /\ msg = <<"[1:", "a", "[2:", "a", "]", "a", "]">>
    /\ parsed.parts = << [order |-> 1, text |-> <<"a">>],
                         [order |-> 2, text |-> <<"a">>],
                         [order |-> 1, text |-> <<"a">>] >>

\* The rule of the claim: every segment inside the root or a block is emitted
\* exactly when it is non-empty or its order is not 0.
SegByRule(seg) == seg.order # -1 /\ (seg.text # <<>> \/ seg.order # 0)

\* The rule of the code: the same for a segment that ends at a bracket token,
\* and the segment after the last token only when it is non-empty.
SegByCode(seg) ==
    IF seg.trailing THEN seg.text # <<>> ELSE SegByRule(seg)

C6_NeverRaises == ppc = "done" => parsed.raised = ""

\* ------------------------------------------- MessageBuffer: properties

\* The brackets of a string, in order: N for "[N:" and 0 for "]".  Those of the
\* buffer's own identifier are read off the events appended (the k-th START
\* opens block k), those of another translation off its tokens.
RECURSIVE EventBrackets(_, _)
EventBrackets(evs, k) ==
    IF evs = <<>> THEN <<>>
    ELSE IF Head(evs).kind = "START" THEN <<k>> \o EventBrackets(Tail(evs), k + 1)
    ELSE IF Head(evs).kind = "END" THEN <<0>> \o EventBrackets(Tail(evs), k)
    ELSE EventBrackets(Tail(evs), k)

RECURSIVE TokenBrackets(_)
TokenBrackets(ts) ==
    IF ts = <<>> THEN <<>>
    ELSE IF Head(ts) = "[1:" THEN <<1>> \o TokenBrackets(Tail(ts))
    ELSE IF Head(ts) = "]" THEN <<0>> \o TokenBrackets(Tail(ts))
    ELSE TokenBrackets(Tail(ts))

TransBrackets ==
    IF trans.own THEN EventBrackets(appended, 1) ELSE TokenBrackets(trans.toks)

RECURSIVE NestPairs(_, _)
\* the pairs <<n, m>> of blocks of a bracket sequence with [m: inside [n:
NestPairs(bs, open) ==
    IF bs = <<>> THEN {}
    ELSE IF Head(bs) = 0 THEN NestPairs(Tail(bs), Front(open))
    ELSE {<<open[i], Head(bs)>> : i \in 1..Len(open)}
            \cup NestPairs(Tail(bs), Append(open, Head(bs)))

\* where translate() yielded the captured START (END) of order n, 0 if nowhere
YieldIdx(e) ==
    IF \E i \in 1..Len(yielded) : yielded[i] = e
    THEN CHOOSE i \in 1..Len(yielded) : yielded[i] = e
    ELSE 0

CapturedStart(n) == captured[n][1]

CapturedEnd(n) == captured[n][Len(captured[n])]

IsBlock(n) ==
    /\ n \in DOMAIN captured /\ n # 0
    /\ Len(captured[n]) >= 2
    /\ CapturedEnd(n).kind = "END"

\* An event sequence as the identifier can carry it: a TEXT without its
\* position, adjacent TEXT events as one, the white space at the two ends of
\* the fragment stripped and an empty TEXT left out.
RECURSIVE Coalesce(_)
Coalesce(evs) ==
    IF Len(evs) < 2 THEN evs
    ELSE IF evs[1].kind = "TEXT" /\ evs[2].kind = "TEXT"
    THEN Coalesce(<<TextEvent(evs[1].text \o evs[2].text)>> \o SubSeq(evs, 3, Len(evs)))
    ELSE <<evs[1]>> \o Coalesce(Tail(evs))

NoPosText(evs) ==
    [i \in 1..Len(evs) |-> IF evs[i].kind = "TEXT" THEN TextEvent(evs[i].text) ELSE evs[i]]

StripEnds(evs) ==
    [i \in 1..Len(evs) |->
        IF evs[i].kind # "TEXT" THEN evs[i]
        ELSE TextEvent((IF i = Len(evs) THEN RStrip(IF i = 1 THEN LStrip(evs[i].text) ELSE evs[i].text)
                        ELSE IF i = 1 THEN LStrip(evs[i].text) ELSE evs[i].text))]

IsNotEmptyText(e) == ~(e.kind = "TEXT" /\ e.text = <<>>)

Carried(evs) == SelectSeq(StripEnds(Coalesce(NoPosText(evs))), IsNotEmptyText)

\* C1: round trip.  Replaying the buffer's own identifier, translate(format()),
\* yields the fragment that was appended: the same kinds and payloads in the
\* same order (text compared as the identifier carries it), and no error.
C1_RoundTrip ==
    (bpc = "translated" /\ trans.own) =>
        /\ raised = ""
        /\ Carried(yielded) = Carried(appended)

\* C2: in the output of translate, the captured START of a block [n: ... ] comes
\* before, and its captured END after, the events of every block [m: ... ]
\* written inside it.
C2_ReplayNested ==
    (bpc = "translated" /\ raised = "") =>
        \A pr \in NestPairs(TransBrackets, <<>>) :
            LET n == pr[1]
                m == pr[2]
            IN  (n # m /\ IsBlock(n) /\ IsBlock(m) /\ YieldIdx(CapturedStart(m)) > 0) =>
                    /\ YieldIdx(CapturedStart(n)) > 0
                    /\ YieldIdx(CapturedStart(n)) < YieldIdx(CapturedStart(m))
                    /\ YieldIdx(CapturedEnd(n)) > YieldIdx(CapturedEnd(m))

IsPlainText(toks) == toks # <<>> /\ \A i \in 1..Len(toks) : toks[i] = "a"

\* The source is root text, then one element holding text only, then at most
\* more root-level text or expressions: "See [1:Help]."
SourceTextThenBlock ==
    /\ Len(appended) >= 4
    /\ appended[1].kind = "TEXT" /\ appended[2].kind = "START"
    /\ appended[3].kind = "TEXT" /\ appended[4].kind = "END"
    /\ \A i \in 5..Len(appended) : appended[i].kind \in {"TEXT", "EXPR"}

\* The translation is the block first, then root text: "[1:Help] - see."
TransBlockThenText(x, y) ==
    /\ ~trans.own
    /\ IsPlainText(x) /\ IsPlainText(y)
    /\ trans.toks = <<"[1:">> \o x \o <<"]">> \o y

\* C3: reordering.  When the translation puts the block before the root text
\* that preceded it in the source, translate yields the captured START, the
\* block's text, the captured END, and then the root text as a new TEXT; the
\* START and END are the events captured (tag, attributes, position).
C3_Reordering ==
    (bpc = "translated" /\ SourceTextThenBlock) =>
        \A k \in 1..(Len(trans.toks) - 3) :
            LET x == SubSeq(trans.toks, 2, 1 + k)
                y == SubSeq(trans.toks, 3 + k, Len(trans.toks))
            IN  TransBlockThenText(x, y) =>
                    /\ raised = ""
                    /\ yielded = << appended[2], TextEvent(Flatten(x)),
                                    appended[4], TextEvent(Flatten(y)) >>

C3_Witness ==
    /\ bpc = "translated" /\ SourceTextThenBlock
    /\ TransBlockThenText(<<"a">>, <<"a">>)
    /\ Len(yielded) = 4
    /\ yielded[1].kind = "START" /\ yielded[1].attrs = HrefAttrs /\ yielded[1].pos = 2
    /\ yielded[3].kind = "END" /\ yielded[3].pos = 4
    /\ yielded[4] = TextEvent(<<"a">>)


\* ------------------------------------- MessageBuffer: errors of a replay

\* The fragments of the translated string, when parse_msg returns them.
TransParsed == parse_msg(trans.str)

\* The parameter names a fragment's text refers to with %(name)s.
RefNames(text) ==
    LET pieces == RegexSplit(text)
    IN  {pieces[i] : i \in {j \in 1..Len(pieces) : j % 2 = 0}}

\* C16: a translated string that refers to a parameter name for which the
\* buffer holds no value is never replayed without an error, wherever the
\* %(name)s stands.
C16_UnknownParamReported ==
    (bpc = "translated" /\ TransParsed.raised = "") =>
        \A i \in 1..Len(TransParsed.parts) :
            (\E name \in RefNames(TransParsed.parts[i].text) : name \notin DOMAIN values)
                => raised # ""

\* The first fragment whose order has no entry in the events captured, 0 if
\* there is none.
FirstMissing ==
    LET parts == TransParsed.parts
        miss  == {i \in 1..Len(parts) : parts[i].order \notin DOMAIN captured}
    IN  IF miss = {} THEN 0 ELSE CHOOSE i \in miss : \A j \in miss : i <= j

\* C17: when a fragment of the translated string has an order without an
\* entry in events, the replay ends in an error; it has yielded what the
\* fragments before that one yield, and the error is the KeyError of the
\* lookup unless one of those fragments raised before.
C17_MissingOrderRaises ==
    (bpc = "translated" /\ TransParsed.raised = "" /\ FirstMissing > 0) =>
        LET before == TranslateParts(SubSeq(TransParsed.parts, 1, FirstMissing - 1),
                                     captured, values, <<>>)
        IN  /\ raised # ""
            /\ yielded = before.out
            /\ before.raised = "" => raised = "KeyError"

\* The source was one text; the translation has that text and then a block
\* 1 the source does not have: the text has been yielded, then the KeyError.
C17_Witness ==
    /\ bpc = "translated"
    /\ Len(appended) = 1 /\ appended[1].kind = "TEXT"
    /\ ~trans.own /\ trans.toks = <<"a", "[1:", "a", "]">>
    /\ FirstMissing = 2
    /\ yielded = <<TextEvent(<<"a">>)>>
    /\ raised = "KeyError"

\* The names the declaration of the buffer gives: those still to bind and
\* those bound, the empty name left out.
DeclaredNames ==
    {params[i] : i \in 1..Len(params)} \cup DOMAIN values

DeclaredCount == Cardinality({name \in DeclaredNames : name # <<>>})

ExprAppended == Len(SelectSeq(appended, LAMBDA e : e.kind = "EXPR"))

\* C18: a buffer created with a declaration of k names takes k EXPR events
\* and fails on the next one, for the empty declaration (k = 0) too.
C18_ExprWithinDeclaration ==
    bpc \in {"append", "failed", "closed"} =>
        /\ ExprAppended <= DeclaredCount
        /\ bpc = "failed" => ExprAppended = DeclaredCount


\* ------------------------------------------ extract_from_code: properties

\* The arguments of a call that are not keyword arguments: the positional
\* ones in their order, then the star and the double-star argument.
Slots(n) ==
    SelectSeq(n.args \o n.star_args \o n.dstar_args, LAMBDA arg : arg.type # "Keyword")

\* The entry of a slot: the decoded text of a string literal, None otherwise.
SlotEntry(arg) ==
    IF arg.type = "Const" /\ arg.value.kind \in {"str", "unicode"}
    THEN Entry(FALSE, Utf8Decode(arg.value.chars))
    ELSE Entry(TRUE, <<>>)

\* A call of a known function by its name.
IsKnownCall(n) ==
    n.type = "CallFunc" /\ n.node[1].type = "Name" /\ n.node[1].name \in GettextFunctions

RECURSIVE KnownCalls(_)
RECURSIVE KnownCallsOf(_)
\* The calls of a known function anywhere in a tree, in the order of a
\* depth-first walk.
KnownCalls(n) ==
    (IF IsKnownCall(n) THEN <<n>> ELSE <<>>) \o KnownCallsOf(getChildNodes(n))

KnownCallsOf(nodes) ==
    IF nodes = <<>> THEN <<>> ELSE KnownCalls(Head(nodes)) \o KnownCallsOf(Tail(nodes))

\* C15: the scanner yields a pair for every call of a known function in the
\* tree, one in the arguments of another such call included.
C15_NestedCallsFound ==
    (spc = "done" /\ found.raised = "") =>
        LET known == KnownCalls(code) IN
        /\ Len(found.out) = Len(known)
        /\ \A i \in 1..Len(known) : found.out[i].name = known[i].node[1].name

\* ------------------------------------------- Translator.extract: properties

\* The END that closes the element the j-th event of the stream starts, 0
\* while it has not been pulled.
MatchingEnd(j) ==
    LET ks == {k \in (j + 1)..Len(exinput) : OpenDepth(SubSeq(exinput, j, k)) = 0} IN
    IF ks = {} THEN 0 ELSE CHOOSE k \in ks : \A l \in ks : k <= l

\* The element the i-th event starts holds the j-th event.
Encloses(i, j) ==
    /\ i < j
    /\ exinput[i].kind = "START"
    /\ (MatchingEnd(i) = 0 \/ MatchingEnd(i) > j)

\* A START with a msg declaration ("attrs.get(i18n_msg) is not None").
HasMsg(e) == e.kind = "START" /\ AttrsGet(e.attrs, I18nMsg) # <<>>

\* The j-th event is in the scope of an element that is skipped.
InSkipScope(j) == \E i \in 1..(j - 1) : Encloses(i, j) /\ Skips(exinput[i])

\* The j-th event opens a Message Buffer: a START with a msg declaration that
\* is not skipped, outside every skipped element and outside every element
\* with a msg declaration.
OpensBuffer(j) ==
    /\ HasMsg(exinput[j])
    /\ ~Skips(exinput[j])
    /\ ~InSkipScope(j)
    /\ \A i \in 1..(j - 1) : Encloses(i, j) => ~HasMsg(exinput[i])

RECURSIVE Content(_)
\* The events of a stream with the events of its substreams in their place.
Content(evs) ==
    IF evs = <<>> THEN <<>>
    ELSE (IF Head(evs).kind = "SUB" THEN Content(Head(evs).sub) ELSE <<Head(evs)>>)
            \o Content(Tail(evs))

RECURSIVE AppendedFrom(_, _)
\* The buffer after the events are appended to it, one after the other.
AppendedFrom(b, evs) ==
    IF evs = <<>> THEN b ELSE AppendedFrom(append(b, Head(evs)), Tail(evs))

\* buffer.format() of a fresh buffer of the element from the j-th event to
\* the k-th, over the whole content of the element, its END included.
ElementMessage(j, k) ==
    LET m == OpenMsgBuf(exinput[j].attrs, exinput[j].pos) IN
    TextMessage(format(AppendedFrom(m.b, Content(SubSeq(exinput, j + 1, k))).string))

\* The tuples yielded for a buffer from the j-th event to the k-th (to the
\* last one if k is 0).
MsgTuplesIn(j, k) ==
    {i \in 1..Len(exout) :
        /\ exout[i].what = "msg"
        /\ exout[i].at >= j
        /\ (k = 0 \/ exout[i].at <= k)}

\* The turn for the k-th event has ended without an exception.
Processed(k) == k # 0 /\ (expc = "raised" => Len(exinput) > k)

\* C11: every element that opens a Message Buffer yields exactly one msg
\* tuple, at the END that matches its START and not before; the tuple has
\* function None, the line of the START, buffer.format() over the whole
\* content of the element and the recorded comment; until that END the buffer
\* is kept.
C11_OneTupleAtOwnEnd ==
    \A j \in 1..Len(exinput) :
        OpensBuffer(j) =>
            LET k == MatchingEnd(j) IN
            /\ k = 0 => MsgTuplesIn(j, 0) = {}
            /\ (k = 0 /\ expc = "running") => msgbuf.open
            /\ Processed(k) =>
                  \E i \in MsgTuplesIn(j, k) :
                      /\ MsgTuplesIn(j, k) = {i}
                      /\ exout[i].at = k
                      /\ exout[i].funcname = ""
                      /\ exout[i].lineno = exinput[j].pos
                      /\ exout[i].message = ElementMessage(j, k)
                      /\ exout[i].comments =
                            LET c == OpenMsgBuf(exinput[j].attrs, exinput[j].pos).comment
                            IN  IF c # <<>> THEN <<c>> ELSE <<>>

RECURSIVE ExprsOf(_)
RECURSIVE ExprsOfAttrs(_)
\* The expressions of a stream that the Extractor comes to: its EXPR events,
\* those of its substreams and those of the attribute values of its STARTs.
ExprsOf(evs) ==
    IF evs = <<>> THEN <<>>
    ELSE LET e == Head(evs) IN
         (IF e.kind = "EXPR" THEN <<e>>
          ELSE IF e.kind = "SUB" THEN ExprsOf(e.sub)
          ELSE IF e.kind = "START" THEN ExprsOfAttrs(e.attrs)
          ELSE <<>>) \o ExprsOf(Tail(evs))

ExprsOfAttrs(attrs) ==
    IF attrs = <<>> THEN <<>>
    ELSE ExprsOf(Head(attrs).evs) \o ExprsOfAttrs(Tail(attrs))

RECURSIVE CallsOf(_)
\* The calls of a known function in the expressions, in their order.
CallsOf(exprs) ==
    IF exprs = <<>> THEN <<>>
    ELSE KnownCalls(CodeOf(Head(exprs).text)) \o CallsOf(Tail(exprs))

\* The tuples yielded for calls in the turn of the j-th event.
CodeTuplesAt(j) ==
    SelectSeq(exout, LAMBDA t : t.what = "code" /\ t.at = j)

\* With extract_text False no tuple is yielded for a free text or a literal
\* attribute.
NoTextTuples == \A i \in 1..Len(exout) : exout[i].what \notin {"text", "attr"}

\* Every msg-marked element that has been closed has a tuple whose message is
\* the full message identifier of its content.
MsgTuplesFull ==
    \A j \in 1..Len(exinput) :
        (OpensBuffer(j) /\ Processed(MatchingEnd(j))) =>
            \E i \in MsgTuplesIn(j, MatchingEnd(j)) :
                exout[i].message = ElementMessage(j, MatchingEnd(j))

\* Every call of a known function in an expression outside the skipped
\* elements has its tuple, with the function's name.
CallsYielded ==
    \A j \in 1..Len(exinput) :
        (Processed(j) /\ ~InSkipScope(j) /\ ~Skips(exinput[j])) =>
            LET known == CallsOf(ExprsOf(<<exinput[j]>>)) IN
            /\ Len(CodeTuplesAt(j)) = Len(known)
            /\ \A i \in 1..Len(known) :
                  CodeTuplesAt(j)[i].funcname = known[i].node[1].name

\* C12: with extract_text False the Extractor yields no free-text and no
\* literal-attribute tuple, yields for every msg-marked element a tuple whose
\* message is the full message identifier of its content, text included, and
\* yields every call of a translation function found in the expressions.
C12_MsgAndCallsIfNotExtracting ==
    ~extract_text => (NoTextTuples /\ MsgTuplesFull /\ CallsYielded)

\* ------------------------------------ Translator.__call__: the domain context

\* C21: at every suspension point of the output (the generator has yielded and
\* waits to be resumed) the context holds no domain pushed by the filter, so
\* a consumer that stops there leaves the context as it was.
C21_NothingPendingAtYield == tpc = "running" => ctxt = <<>>

\* --------------------------------------- Translator.extract: free text

\* A Message Buffer is open at the j-th event: the event is inside an
\* element that opened one.
BufferOpenAt(j) == \E i \in 1..(j - 1) : OpensBuffer(i) /\ Encloses(i, j)

\* The tuples yielded in the turn of the j-th event.
TuplesAt(j) == SelectSeq(exout, LAMBDA t : t.at = j)

\* C22: for a TEXT outside every skip scope a tuple (line, None, stripped
\* text, []) is yielded if and only if no Message Buffer is open, text search
\* is enabled and the stripped text has a letter; while a buffer is open the
\* TEXT is appended to it and no tuple is yielded.
C22_FreeText ==
    \A j \in 1..Len(exinput) :
        (exinput[j].kind = "TEXT" /\ ~InSkipScope(j) /\ Processed(j)) =>
            LET e    == exinput[j]
                text == Strip(e.text)
            IN
            /\ TuplesAt(j) =
                  IF ~BufferOpenAt(j) /\ extract_text /\ HasAlpha(text)
                  THEN <<Tuple4(e.pos, "", TextMessage(text), <<>>, j, "text")>>
                  ELSE <<>>
            /\ (BufferOpenAt(j) /\ j = Len(exinput)) =>
                  /\ msgbuf.open
                  /\ msgbuf.b.string # <<>>
                  /\ Last(msgbuf.b.string) = e.text
                  /\ Last(msgbuf.b.events[Last(msgbuf.b.stack)]) = NoneMark

\* ------------------------------------------ MessageBuffer.append: properties

\* The START events appended so far, in their order.
StartsAppended == SelectSeq(appended, LAMBDA e : e.kind = "START")

\* The events of a kind recorded under an order.
RecordedOf(n, kind) ==
    IF n \in DOMAIN events
    THEN SelectSeq(events[n], LAMBDA e : e.kind = kind)
    ELSE <<>>

\* The '[N:' tokens of the buffer's string, in their order.
OpenTokensOf(str) == SelectSeq(str, LAMBDA s : s # <<>> /\ Head(s) = "[")

\* C23: after any sequence of appends the k-th START appended has order-id k,
\* counting from 1: it alone is recorded under k, the k-th '[N:' token of the
\* string is '[k:', and the order counter is one more than the STARTs
\* appended, so it never decreases and no id is used twice, whatever END,
\* TEXT and EXPR events are interleaved.
C23_OrderIdsInDocumentOrder ==
    bpc \in {"append", "closed", "failed"} =>
        LET starts == StartsAppended IN
        /\ order = Len(starts) + 1
        /\ \A k \in 1..Len(starts) : RecordedOf(k, "START") = <<starts[k]>>
        /\ RecordedOf(0, "START") = <<>>
        /\ \A n \in DOMAIN events : n \in 0..Len(starts)
        /\ OpenTokensOf(string) = [k \in 1..Len(starts) |-> OpenBracket(k)]

\* START, END, TEXT, START: the second START, appended fourth, has order-id 2
C23_Witness ==
    /\ bpc = "append"
    /\ Len(appended) = 4
    /\ appended[1].kind = "START" /\ appended[2].kind = "END"
    /\ appended[3].kind = "TEXT" /\ appended[4].kind = "START"
    /\ events[2] = <<appended[4]>>
    /\ order = 3

\* The items of the string that append writes for END events.
CloseTokensOf(str) == SelectSeq(str, LAMBDA s : s = <<"]">>)

RECURSIVE OpenOrders(_, _)
\* The orders of the '[N:' tokens of the string that no ']' token has closed
\* yet, the innermost last, each ']' token closing the innermost one; <<-1>>
\* if a ']' token finds none to close.
OpenOrders(str, open) ==
    IF str = <<>> THEN open
    ELSE LET s == Head(str) IN
         IF s # <<>> /\ Head(s) = "["
         THEN OpenOrders(Tail(str), Append(open, ToInt(SubSeq(s, 2, Len(s) - 1))))
         ELSE IF s = <<"]">>
         THEN IF open = <<>> THEN <<-1>> ELSE OpenOrders(Tail(str), Front(open))
         ELSE OpenOrders(Tail(str), open)

RECURSIVE CharDepth(_, _, _)
\* The brackets open at the end of an identifier, read from its i-th
\* character with d brackets open; -1 if a ']' has nothing to close.
CharDepth(s, i, d) ==
    IF i > Len(s) THEN d
    ELSE IF s[i] = "]"
    THEN IF d = 0 THEN -1 ELSE CharDepth(s, i + 1, d - 1)
    ELSE IF BracketOpenAt(s, i) THEN CharDepth(s, i + 1, d + 1)
    ELSE CharDepth(s, i + 1, d)

\* The identifier is bracket-balanced.
BracketBalanced(s) == CharDepth(s, 1, 0) = 0

\* The '[N:' tokens open in the string are those of the stack, and depth is
\* one more than their number.
TokensMatchStack ==
    /\ OpenOrders(string, <<>>) = Tail(stack)
    /\ Len(stack) - 1 = depth - 1

\* The END that brought depth to 0 has added nothing: no ']' more than the
\* '[N:' tokens, no END recorded for it, the stack as it was.
OwnEndAddsNothing ==
    /\ depth = 0
    /\ stack = <<0>>
    /\ OpenOrders(string, <<>>) = <<>>
    /\ \A n \in DOMAIN events : Len(RecordedOf(n, "END")) = IF n = 0 THEN 0 ELSE 1

\* C24: after the appends of a prefix of a well-nested sequence of events the
\* '[N:' tokens of the string not yet closed are those of the stack above its
\* bottom, len(stack) - 1 = depth - 1 of them, each ']' closing the innermost;
\* once every nested element is closed format() is bracket-balanced; and the
\* END that brings depth to 0 adds nothing to string, events or stack.
C24_BracketBalance ==
    /\ bpc = "append" =>
          /\ TokensMatchStack
          /\ depth = 1 => BracketBalanced(format(string))
    /\ bpc = "closed" => OwnEndAddsNothing

\* ---------------------------------------- MessageBuffer.translate: single use

\* No START or END event is yielded twice, in one call or in two.
EmittedOnce ==
    \A i, j \in 1..Len(yielded) :
        (i # j /\ yielded[i].kind \in {"START", "END"}) => yielded[i] # yielded[j]

\* Every fragment of the translated string has an order the call found in
\* self.events.
OrdersCaptured ==
    \A i \in 1..Len(TransParsed.parts) : TransParsed.parts[i].order \in DOMAIN captured

\* Every fragment of the translated string has an order whose events the
\* call found drained.
OrdersDrained ==
    \A i \in 1..Len(TransParsed.parts) :
        /\ TransParsed.parts[i].order \in DOMAIN captured
        /\ captured[TransParsed.parts[i].order] = <<>>

\* Every %(name)s of the translated string has a value.
NamesBound ==
    \A i \in 1..Len(TransParsed.parts) :
        RefNames(TransParsed.parts[i].text) \subseteq DOMAIN values

\* C25: over the translate() calls on one buffer every captured START and END
\* event is emitted at most once; a call whose fragments refer to orders
\* already drained yields nothing; and no fragment raises an error for an
\* order that is drained (a duplicated block in one string, a second call).
C25_SingleUse ==
    bpc \in {"translated", "again"} =>
        /\ EmittedOnce
        /\ (bpc = "again" /\ TransParsed.raised = "" /\ OrdersDrained) =>
              /\ Len(yielded) = trans.first
              /\ raised = ""
        /\ (TransParsed.raised = "" /\ OrdersCaptured /\ NamesBound) => raised = ""

\* START, END appended; translate('[1:][1:]') twice: the first block of the
\* first call yields both events, the second block and the second call none
C25_Witness ==
    /\ bpc = "again"
    /\ trans.toks = <<"[1:", "]", "[1:", "]">>
    /\ Len(appended) = 2
    /\ yielded = appended
    /\ trans.first = 2
    /\ raised = ""

\* ---------------------------------- MessageBuffer.translate: expressions

\* The EXPR events appended, in their order: the i-th is the one captured
\* for the i-th declared name.
ExprsAppended == SelectSeq(appended, LAMBDA e : e.kind = "EXPR")

\* The EXPR event captured for a name when it was appended (the model's
\* declarations have one name at most).
CapturedFor(name) == ExprsAppended[1]

RECURSIVE Interpolated(_, _)
\* What a fragment's text is replayed as: the pieces of the split of its
\* text, a name (odd index) as the event captured for it and a text that is
\* not empty as a new TEXT without a position.
Interpolated(pieces, idx) ==
    IF pieces = <<>> THEN <<>>
    ELSE (IF idx % 2 = 1 THEN <<CapturedFor(Head(pieces))>>
          ELSE IF Head(pieces) # <<>>
          THEN <<Ev("TEXT", Head(pieces), "", <<>>, <<>>, <<>>, NoPos)>>
          ELSE <<>>) \o Interpolated(Tail(pieces), idx + 1)

\* The region holds TEXT and EXPR events only and the translated string is
\* one fragment of order 0, so the first call of translate replays that
\* fragment, once.
FlatReplay ==
    /\ bpc = "translated"
    /\ raised = ""
    /\ appended # <<>>
    /\ \A i \in 1..Len(appended) : appended[i].kind \in {"TEXT", "EXPR"}
    /\ TransParsed.raised = ""
    /\ TransParsed.parts = <<[order |-> 0, text |-> trans.str]>>

\* C26: every %(name)s of a replayed fragment is replaced by the very EXPR
\* event (kind, data, position) captured for the name, once for each
\* occurrence of the token, and the text between the tokens comes as new TEXT
\* events without a source position.
C26_ExprReplayVerbatim ==
    /\ bpc = "translated" =>
          \A i \in 1..Len(yielded) :
              /\ yielded[i].kind = "EXPR" => yielded[i] \in {e \in {appended[k] : k \in 1..Len(appended)} : e.kind = "EXPR"}
              /\ yielded[i].kind = "TEXT" => (yielded[i].pos = NoPos /\ yielded[i].text # <<>>)
    /\ FlatReplay => yielded = Interpolated(RegexSplit(trans.str), 0)

\* an EXPR appended under the declaration 'n'; translate('%(n)sa%(n)s'): the
\* captured event comes twice, with its position, around a new TEXT 'a'
C26_Witness ==
    /\ FlatReplay
    /\ trans.toks = <<"%(n)s", "a", "%(n)s">>
    /\ Len(ExprsAppended) = 1
    /\ yielded = <<ExprsAppended[1], Ev("TEXT", <<"a">>, "", <<>>, <<>>, <<>>, NoPos),
                   ExprsAppended[1]>>
    /\ ExprsAppended[1].pos > 0

\* ------------------------------------ Translator.__call__: free text

\* The calls of the translation function made for the TEXT event at a path.
TextCalls(path) == SelectSeq(calls, LAMBDA c : c.path = path /\ c.what = "text")

\* What the translation function returned to a call.
Returned(c) == IF c.fn = "gettext" THEN Ugettext(c.arg) ELSE Dugettext(c.dom, c.arg)

\* The white space a string begins with and the white space it ends with.
Leading(s) == SubSeq(s, 1, Len(s) - Len(LStrip(s)))

Trailing(s) == SubSeq(s, Len(RStrip(s)) + 1, Len(s))

\* The TEXT a is answered by b as the claim has it: one call, with the
\* stripped text, and its result between the white space of a; no call and b
\* the same as a for a text of white space.
TextAsClaimed(a, b, path) ==
    LET t == Strip(a.text) IN
    IF t # <<>>
    THEN /\ Len(TextCalls(path)) = 1
         /\ TextCalls(path)[1].arg = t
         /\ b = [a EXCEPT !.text = Leading(a.text) \o Returned(TextCalls(path)[1])
                                      \o Trailing(a.text)]
    ELSE /\ TextCalls(path) = <<>>
         /\ b = a

\* A SUB without a MsgDirective: its substream is searched for text.
SearchedSub(e) == e.kind = "SUB" /\ \A k \in 1..Len(e.dirs) : e.dirs[k].type # "msg"

ExpectedSkip(stream) ==
    LET n  == Len(stream)
        js == {j \in 1..n : /\ Ignorable(stream[j])
                            /\ \A m \in j..n : OpenDepth(SubSeq(stream, j, m)) > 0}
    IN  IF js = {} THEN 0
        ELSE OpenDepth(SubSeq(stream, CHOOSE j \in js : \A l \in js : j <= l, n))

\* C28: the skip counter is never negative; after every event of a
\* well-nested stream it is the number of elements open in the skipped
\* subtree, so it is 0 again at the END matching the START that entered skip
\* mode and not at an END nested in the subtree; and a TEXT that comes right
\* after that matching END is translated.
C28_SkipCounter ==
    /\ skip >= 0
    /\ tpc \in {"running", "done"} => skip = ExpectedSkip(input)
    /\ \A i \in 2..Len(output) :
          (/\ input[i - 1].kind = "END"
           /\ InScope(input, i - 1)
           /\ ~InScope(input, i)
           /\ input[i].kind = "TEXT"
           /\ extract_text) =>
              TextAsClaimed(input[i], output[i], <<i>>)

\* <script><p ...></p>: the END of the nested element leaves the counter at 1
C28_Witness ==
    /\ tpc = "running"
    /\ input = <<ScriptStart, PlainStart, EndIn>>
    /\ output = input
    /\ skip = 1

\* C29: the only domain on the context during a traversal is the one of the
\* SUB just yielded, whose pop is due; once the output is consumed to the end
\* every push has had its pop and the context is as before the traversal;
\* and a TEXT that follows a SUB with a DomainDirective at the same level is
\* looked up without the domain.
C29_DomainBalanced ==
    /\ tpc = "done" => (ctxt = <<>> /\ ~pend)
    /\ tpc = "running" =>
          IF pend
          THEN IsDomainSub(input[Len(input)]) /\ ctxt = CurrentDomain(input[Len(input)].dirs)
          ELSE ctxt = <<>>
    /\ \A i \in 2..Len(output) :
          (IsDomainSub(input[i - 1]) /\ input[i].kind = "TEXT") =>
              \A n \in 1..Len(TextCalls(<<i>>)) :
                  TextCalls(<<i>>)[n].fn = "gettext" /\ TextCalls(<<i>>)[n].dom = ""

\* a SUB with the domain d, its text looked up with dugettext, then a TEXT
\* looked up with ugettext, and the end of the stream
C29_Witness ==
    /\ tpc = "done"
    /\ input = <<SubIn(<<DomainDirective>>, <<PlainStart, TextIn, EndIn>>), TextIn>>
    /\ Len(TextCalls(<<1, 2>>)) = 1 /\ TextCalls(<<1, 2>>)[1].dom = "d"
    /\ Len(TextCalls(<<2>>)) = 1 /\ TextCalls(<<2>>)[1].dom = ""
    /\ ctxt = <<>>

\* ------------------------- MessageBuffer.translate, statement by statement

\* translate(string) is called on the buffer after some appends: parse_msg
\* is entered with the string and the stack [0].
ReplayCall ==
    /\ bpc = "append"
    /\ Len(appended) <= MaxReplayEvents
    /\ \E toks \in TransTokSeqs(MaxReplayTokens) :
          /\ trans' = [own |-> FALSE, toks |-> toks, str |-> Flatten(toks),
                       again |-> FALSE]
          /\ rstring' = Flatten(toks)
    /\ rstack' = <<0>> /\ rparts' = <<>> /\ rpc' = "parse"
    /\ bpc' = "replay"
    /\ captured' = events
    /\ UNCHANGED <<params, string, events, values, depth, order, stack,
                   appended, yielded, raised>>
    /\ UNCHANGED pvars
    /\ UNCHANGED tvars
    /\ UNCHANGED svars
    /\ UNCHANGED xvars

\* The statements after the loop of parse_msg, and its return to translate
\* (or the IndexError of stack[-1]).
ParseReturn(str, stk, parts) ==
    LET r == ParseTail(str, stk, parts) IN
    /\ rstring' = str
    /\ rstack' = stk
    /\ rparts' = r.parts
    /\ raised' = r.raised
    /\ rpc' = IF r.raised # "" THEN "raised" ELSE "for"

\* One turn of "while True" in parse_msg; the turn that breaks goes on to
\* the statements after the loop.
ParseStep ==
    /\ rpc = "parse"
    /\ LET i == BracketSearch(rstring) IN
       IF i = 0 THEN ParseReturn(rstring, rstack, rparts)
       ELSE
         LET start  == i - 1
             parts1 == IF KeepSegment(start, Last(rstack))
                       THEN Append(rparts, [order |-> Last(rstack),
                                            text  |-> SubSeq(rstring, 1, start)])
                       ELSE rparts
             isOpen == rstring[i] = "["
             n      == DigitRun(rstring, i + 1)
             mend   == IF isOpen THEN i + n + 1 ELSE i
             rest   == From(rstring, mend + 1)
             stack1 == IF isOpen
                       THEN Append(rstack, ToInt(SubSeq(rstring, i + 1, i + n)))
                       ELSE Front(rstack)
         IN  IF stack1 = <<>>
             THEN ParseReturn(rest, stack1, parts1)
             ELSE /\ rstring' = rest /\ rstack' = stack1 /\ rparts' = parts1
                  /\ UNCHANGED <<rpc, raised>>
    /\ UNCHANGED <<params, string, events, values, depth, order, stack,
                   appended, bpc, trans, captured, yielded>>
    /\ UNCHANGED pvars
    /\ UNCHANGED tvars
    /\ UNCHANGED svars
    /\ UNCHANGED xvars

\* "for order, string in parts: events = self.events[order]": the next
\* fragment is taken, or the generator ends.
TakeFragment ==
    /\ rpc = "for"
    /\ IF rparts = <<>>
       THEN rpc' = "ended" /\ UNCHANGED raised
       ELSE IF Head(rparts).order \notin DOMAIN events
       THEN rpc' = "raised" /\ raised' = "KeyError"
       ELSE rpc' = "while" /\ UNCHANGED raised
    /\ UNCHANGED <<rstring, rstack, rparts>>
    /\ UNCHANGED <<params, string, events, values, depth, order, stack,
                   appended, bpc, trans, captured, yielded>>
    /\ UNCHANGED pvars
    /\ UNCHANGED tvars
    /\ UNCHANGED svars
    /\ UNCHANGED xvars

\* One turn of "while events" for the fragment taken: yielded is what the
\* turn yields.
PopEvent ==
    /\ rpc = "while"
    /\ LET ord == Head(rparts).order
           str == Head(rparts).text
       IN
       IF events[ord] = <<>>
       THEN /\ rpc' = "for" /\ rparts' = Tail(rparts)
            /\ UNCHANGED <<events, yielded, raised>>
       ELSE
         LET event == Head(events[ord])
             ev1   == [events EXCEPT ![ord] = Popped(@)]
         IN  /\ events' = ev1
             /\ IF event.kind # "NONE"
                THEN /\ yielded' = <<event>>
                     /\ UNCHANGED <<rpc, rparts, raised>>
                ELSE IF str = <<>>
                THEN /\ rpc' = "for" /\ rparts' = Tail(rparts)
                     /\ UNCHANGED <<yielded, raised>>
                ELSE LET r == SplitLoop(RegexSplit(str), 0, values, <<>>) IN
                     /\ yielded' = r.out
                     /\ raised' = r.raised
                     /\ IF r.raised # ""
                        THEN rpc' = "raised" /\ UNCHANGED rparts
                        ELSE IF StopAfterText(ev1[ord])
                        THEN rpc' = "for" /\ rparts' = Tail(rparts)
                        ELSE UNCHANGED <<rpc, rparts>>
    /\ UNCHANGED <<rstring, rstack>>
    /\ UNCHANGED <<params, string, values, depth, order, stack,
                   appended, bpc, trans, captured>>
    /\ UNCHANGED pvars
    /\ UNCHANGED tvars
    /\ UNCHANGED svars
    /\ UNCHANGED xvars

\* translate(string) is called once more, on the buffer as the first call
\* left it.
ReplayAgain ==
    /\ rpc \in {"ended", "raised"}
    /\ ~trans.again
    /\ trans' = [trans EXCEPT !.again = TRUE]
    /\ rstring' = trans.str /\ rstack' = <<0>> /\ rparts' = <<>> /\ rpc' = "parse"
    /\ raised' = "" /\ yielded' = <<>>
    /\ captured' = events
    /\ UNCHANGED <<params, string, events, values, depth, order, stack,
                   appended, bpc>>
    /\ UNCHANGED pvars
    /\ UNCHANGED tvars
    /\ UNCHANGED svars
    /\ UNCHANGED xvars

NextReplay ==
    \/ AppendText
    \/ AppendExpr
    \/ AppendStart
    \/ AppendEnd
    \/ ReplayCall
    \/ ParseStep
    \/ TakeFragment
    \/ PopEvent
    \/ ReplayAgain

SpecReplay == InitBuf /\ [][NextReplay]_vars

\* A statement of the call under way.
ReplayStep == ParseStep \/ TakeFragment \/ PopEvent

\* The interpreter runs the next statement of parse_msg, and the consumer of
\* the generator goes on pulling; nothing obliges the caller to append or to
\* call.
SpecReplayFair == SpecReplay /\ WF_vars(ReplayStep)

\* The call has come to its end as translate(str, ...) computes it in one
\* step: the same events are left in self.events, with the same exception.
ReplayAgrees ==
    rpc \in {"ended", "raised"} =>
        LET r == translate(trans.str, captured, values) IN
        /\ events = r.events
        /\ raised = r.raised

\* C30: parse_msg returns and the generator of translate ends, or raises,
\* after finitely many statements, whatever the translated string and the
\* buffer are: no fragment makes it loop.
C30_ReplayTerminates ==
    (rpc \in {"parse", "for", "while"}) ~> (rpc \in {"ended", "raised"})

\* START, TEXT, END with translate('[1:a]'): the call has ended and the three
\* events of the element are popped
C30_Witness ==
    /\ rpc = "ended"
    /\ ~trans.again
    /\ trans.toks = <<"[1:", "a", "]">>
    /\ Len(appended) = 3
    /\ appended[1].kind = "START" /\ appended[2].kind = "TEXT" /\ appended[3].kind = "END"
    /\ \A n \in DOMAIN events : events[n] = <<>>

\* ----------------------------------- Translator.extract: the skipped subtree

\* The j-th event belongs to a skipped subtree: it is the START that enters
\* skip mode, an event in the scope of that element, or the END that closes it.
InSkippedSubtree(j) ==
    \/ exinput[j].kind = "START" /\ Skips(exinput[j])
    \/ InSkipScope(j)
    \/ /\ exinput[j].kind = "END"
       /\ \E i \in 1..(j - 1) :
             exinput[i].kind = "START" /\ Skips(exinput[i]) /\ MatchingEnd(i) = j

\* The event pulled last belongs to a skipped subtree.
LastInSkippedSubtree == exinput # <<>> /\ InSkippedSubtree(Len(exinput))

\* The turn for one more event has been run to its end, with a buffer open
\* before it.
TurnWithOpenBuffer ==
    /\ msgbuf.open
    /\ Len(exinput') = Len(exinput) + 1
    /\ expc' = "running"

\* C31: while a Message Buffer is open, the turn for an event of a skipped
\* subtree (the START that enters skip mode, its matching END, and every
\* event between them) leaves the buffer as it was: its string, events,
\* params, stack and depth, and the buffer stays the open one.
C31_SkippedSubtreeLeavesBuffer ==
    [][(TurnWithOpenBuffer /\ LastInSkippedSubtree') => msgbuf' = msgbuf]_vars

\* ------------------------- Translator.__call__ and extract on the same stream

\* The calls of the translation function the Translator makes when it filters
\* the events pulled so far, with the same ignore_tags, include_attrs and
\* extract_text.
TranslatorCalls == RunStream(exinput, <<>>, TRUE, <<>>).calls

\* The Translator passes the message of the tuple to the translation function
\* for an attribute, or for a text, of the same event of the stream.
KeyPassed(t) ==
    \E n \in 1..Len(TranslatorCalls) :
        LET c == TranslatorCalls[n] IN
        /\ c.what = t.what
        /\ Head(c.path) = t.at
        /\ TextMessage(c.arg) = t.message

\* C32: every message the extractor yields for a literal attribute of the
\* include set or for a free TEXT is the string the Translator, run on the
\* same stream with the same configuration, passes to the translation
\* function for that attribute or text.
C32_SameCatalogKeys ==
    \A n \in 1..Len(exout) :
        exout[n].what \in {"attr", "text"} => KeyPassed(exout[n])

====
